---- MODULE Spec2Model ----
(***************************************************************************)
(* State-machine model of the environment-resolution and caching engine of *)
(* proton-prefix-manager: the per-file modification-time-gated caches      *)
(* (utils/library.rs, utils/user_config.rs), the whole-result TTL caches   *)
(* and the item scanner (core/steam.rs), the runtime matcher and the       *)
(* repair state machine (utils/prefix_repair.rs).                          *)
(***************************************************************************)
EXTENDS Integers, Sequences, FiniteSets, TLC

(***************************************************************************)
(* ---------------------------- bounds ----------------------------------- *)
(***************************************************************************)
\* Largest modification time a file reaches (mtimes are 0..MaxTime).
MaxTime == 2
\* Largest reading of the wall clock, in seconds.
MaxClock == 5
\* Number of times the wall clock is set back.
MaxBacks == 1
\* Largest reading of the window's clock, in seconds.
MaxGuiTime == 5
\* Largest number of libraries in a slice whose scan takes the locks.
MaxJobs == 2
\* Number of distinct file paths in the eviction specification; it exceeds
\* the larger cache limit so that both caches overflow.
NumPaths == 22
\* Number of times repair_prefix is run on the same prefix.
MaxRuns == 2

(***************************************************************************)
(* ------------------------------- state --------------------------------- *)
(* One group of variables per component; a specification moves one group  *)
(* and leaves the others as they are.                                      *)
(***************************************************************************)
\* the per-file caches
VARIABLES
    inst,       \* which per-file cache: "manifest" or "localconfig"
    fsContent,  \* file system: path -> contents of the file
    fsMtime,    \* file system: path -> modification time of the file
    cache,      \* MANIFEST_FILE_CACHE / LOCALCONFIG_CACHE: path -> entry
    order,      \* MANIFEST_FILE_ORDER / LOCALCONFIG_ORDER: queue of paths
    hi,         \* highest path id used so far (paths are first used in order)
    lastOp,     \* the last cache operation: [kind, path]
    pc,         \* thread -> position in the operation it runs
    tpath,      \* thread -> `path` argument
    tmod,       \* thread -> `modified` local (result of fs::metadata)
    tcont,      \* thread -> `contents` argument of update_*_cache
    ret,        \* thread -> value returned by its last cached read
    dirty       \* thread -> the file was modified since its last read began

fileVars == <<inst, fsContent, fsMtime, cache, order, hi, lastOp,
              pc, tpath, tmod, tcont, ret, dirty>>

\* the whole-result caches
VARIABLES
    winst,      \* which whole-result cache: "library" or "items"
    now,        \* the wall clock (SystemTime::now())
    wfs,        \* the file system the recomputation reads
    wcache,     \* LIBRARY_CACHE / MANIFEST_CACHE: None or Some(entry)
    holder,     \* the thread holding the cache's mutex, or "none"
    wpc,        \* thread -> position in the call
    warg,       \* thread -> the `libraries` argument
    wpend,      \* thread -> library_paths / results still to be consumed
    wacc,       \* thread -> the `libraries` / `games` vector being built
    wclean,     \* thread -> the file system has not changed during its recomputation
    lastRet,    \* the last result returned: [thread, kind, value]
    burst       \* the current group of overlapping calls: the clock when it
                \* began, its size, whether every call was made on an empty or
                \* expired cache, its successful recomputations, any failure

ttlVars == <<winst, now, wfs, wcache, holder, wpc, warg, wpend, wacc, wclean,
             lastRet, burst>>

\* the item scanner
VARIABLES
    sfs,        \* library -> [steamapps, compat]: what the scan reads
    sarg,       \* the `libraries` slice being scanned
    sidx,       \* the library load_games_from_library is working on
    sphase,     \* "idle", "manifests", "compat" or "done"
    stodo,      \* entries of the current read_dir not yet yielded
    sgames,     \* `games` of load_games_from_library
    sresult     \* `games` of load_games_from_libraries

scanVars == <<sfs, sarg, sidx, sphase, stodo, sgames, sresult>>

\* the runtime matcher
VARIABLES
    rfs,        \* what get_steam_libraries returns and what the roots hold
    rlabel,     \* the `version` argument
    rpc,        \* "start", "exactLibs", "fuzzyLibs", "toolExact", "toolFuzzy", "done"
    rtool,      \* the tool directory the last loop is at
    rfound,     \* the path returned (NoPath for None)
    rstages     \* the stages gone through, in order

rtVars == <<rfs, rlabel, rpc, rtool, rfound, rstages>>

\* the repair state machine
VARIABLES
    pdirs,      \* state of pfx, pfx/drive_c, pfx/dosdevices
    pstamp,     \* pfx/.update-timestamp has been written by the run
    pversion,   \* content of <prefix>/version
    parentver,  \* content of <prefix>/../version
    rbins,      \* files in the runtime directory
    ppc,        \* position of repair_prefix
    pplan,      \* the Command built: program, arguments, WINEPREFIX
    pruntime,   \* what the lookup found: label and runtime path
    pstarted,   \* processes started by the run
    pexit,      \* exit status of the process, NoExit if none has ended
    pio,        \* the I/O error a system call of the run failed with
    pret,       \* what repair_prefix returned
    pphases,    \* the phases the run went through
    pbefore,    \* the directories as the run found them
    pruns       \* runs so far

repairVars == <<pdirs, pstamp, pversion, parentver, rbins, ppc, pplan, pruntime,
                pstarted, pexit, pio, pret, pphases, pbefore, pruns>>

\* path discovery
VARIABLES
    hfs,        \* the home directory: what each conventional location resolves to
    dfn,        \* the discovery function called last, "none" before any call
    ddirs       \* the `dirs` vector it returned

pathVars == <<hfs, dfn, ddirs>>

\* the identity resolver
VARIABLES
    ifs,        \* what config_dirs() and userdata_dirs() return, and what the roots hold
    iop,        \* the resolver function called last, "none" before any call
    iarg,       \* the `uid` argument of steamid_to_accountid
    iret        \* what the function returned

idVars == <<ifs, iop, iarg, iret>>

\* the key-value codec
VARIABLES
    kfam,       \* the pair of functions at work: "manifest", "launch" or "compat"
    korig,      \* the text as it was first
    kdoc,       \* the text as it is now
    kkey,       \* the `key` argument of update_or_insert and get_value
    kval,       \* the `value` argument
    ksets,      \* how often the set function has returned
    kprev,      \* the text before the set function was last applied
    kget,       \* what the get function returned last
    kop,        \* the function called last: "none", "set", "get" or "panic"
    kwritten    \* the text is as the set function returned it

kvVars == <<kfam, korig, kdoc, kkey, kval, ksets, kprev, kget, kop, kwritten>>

\* the library registry
VARIABLES
    lfs,        \* the home directory, the libraryfolders.vdf of each config root, the listed paths
    lpc,        \* where get_steam_libraries stands: "idle", "loop" or "done"
    lfrom,      \* the config root whose libraryfolders.vdf was read
    lpaths,     \* library_paths still to be visited by the loop of lines 85-89
    lbuilt,     \* the libraries built so far, each with what its path was when built
    lstable,    \* the file system is as it was when get_steam_libraries was called
    lret        \* what get_steam_libraries returned

libVars == <<lfs, lpc, lfrom, lpaths, lbuilt, lstable, lret>>

\* the wall clock set back, and what a panic leaves behind
VARIABLES
    wpoison,    \* the mutex of the whole-result cache is poisoned
    wbacks      \* how often the clock has been set back

clkVars == <<wpoison, wbacks>>

\* the window of the application
VARIABLES
    gtime,          \* ctx.input(|i| i.time), in whole seconds
    gloader,        \* the thread started by new: "running", "stored" or "failed"
    ginstalled,     \* installed_games
    gloading,       \* loading
    gfiltered,      \* filtered_games, the list displayed
    gerror,         \* error_message is Some
    gsearch         \* search_changed

guiVars == <<gtime, gloader, ginstalled, gloading, gfiltered, gerror, gsearch>>

\* the scan of the libraries in parallel
VARIABLES
    qfs,        \* library -> its steamapps and compatdata directories
    qstart,     \* MANIFEST_FILE_CACHE as it was when the call began
    qcache,     \* MANIFEST_FILE_CACHE: path -> what the cached text parses to
    qarg,       \* the `libraries` slice
    qphase,     \* "idle", "running" (inside collect) or "merged"
    qtasks,     \* one load_games_from_library per element of the slice
    qfinished,  \* the tasks in the order in which they returned
    qresult     \* `games` of load_games_from_libraries

parVars == <<qfs, qstart, qcache, qarg, qphase, qtasks, qfinished, qresult>>

\* the mutexes of the caches
VARIABLES
    xowner,     \* mutex -> the thread holding it, or "none"
    xprog,      \* thread -> what is left of the operation it runs
    xop,        \* thread -> the operation it runs, "none" when it runs none
    xacq,       \* thread -> the mutexes its operation has locked so far, in order
    xjobs,      \* tasks handed to the thread pool and not yet taken by a worker
    xleft       \* tasks handed to the thread pool and not yet returned

lockVars == <<xowner, xprog, xop, xacq, xjobs, xleft>>

vars == <<fileVars, ttlVars, scanVars, rtVars, repairVars, pathVars, idVars, kvVars, libVars, clkVars, guiVars, parVars, lockVars>>

\* What the steps of one component leave unchanged.
FileFrame == UNCHANGED <<ttlVars, scanVars, rtVars, repairVars, pathVars, idVars, kvVars, libVars, clkVars, guiVars, parVars, lockVars>>
TTLFrame == UNCHANGED <<fileVars, scanVars, rtVars, repairVars, pathVars, idVars, kvVars, libVars, clkVars, guiVars, parVars, lockVars>>
ScanFrame == UNCHANGED <<fileVars, ttlVars, rtVars, repairVars, pathVars, idVars, kvVars, libVars, clkVars, guiVars, parVars, lockVars>>
RtFrame == UNCHANGED <<fileVars, ttlVars, scanVars, repairVars, pathVars, idVars, kvVars, libVars, clkVars, guiVars, parVars, lockVars>>
RepairFrame == UNCHANGED <<fileVars, ttlVars, scanVars, rtVars, pathVars, idVars, kvVars, libVars, clkVars, guiVars, parVars, lockVars>>
PathFrame == UNCHANGED <<fileVars, ttlVars, scanVars, rtVars, repairVars, idVars, kvVars, libVars, clkVars, guiVars, parVars, lockVars>>
IdFrame == UNCHANGED <<fileVars, ttlVars, scanVars, rtVars, repairVars, pathVars, kvVars, libVars, clkVars, guiVars, parVars, lockVars>>
KvFrame == UNCHANGED <<fileVars, ttlVars, scanVars, rtVars, repairVars, pathVars, idVars, libVars, clkVars, guiVars, parVars, lockVars>>
LibFrame == UNCHANGED <<fileVars, ttlVars, scanVars, rtVars, repairVars, pathVars, idVars, kvVars, clkVars, guiVars, parVars, lockVars>>
\* The steps about the clock change the whole-result caches as well.
ClockFrame == UNCHANGED <<fileVars, scanVars, rtVars, repairVars, pathVars, idVars, kvVars, libVars, guiVars, parVars, lockVars>>
GuiFrame == UNCHANGED <<fileVars, ttlVars, scanVars, rtVars, repairVars, pathVars, idVars, kvVars, libVars, clkVars, parVars, lockVars>>
ParFrame == UNCHANGED <<fileVars, ttlVars, scanVars, rtVars, repairVars, pathVars, idVars, kvVars, libVars, clkVars, guiVars, lockVars>>
LockFrame == UNCHANGED <<fileVars, ttlVars, scanVars, rtVars, repairVars, pathVars, idVars, kvVars, libVars, clkVars, guiVars, parVars>>

(***************************************************************************)
(* --------------------- per-file caches --------------------------------- *)
(* library.rs:11-72 (manifest cache) and user_config.rs:11-73 (localconfig *)
(* cache) are the same code over two pairs of statics; `inst` says which   *)
(* pair a behaviour is about.                                              *)
(***************************************************************************)
MANIFEST_CACHE_LIMIT == 20
LOCALCONFIG_CACHE_LIMIT == 10

Insts == {"manifest", "localconfig"}
PathIds == 1 .. NumPaths
\* Paths that are read or written again after their first use.
Active == {1}
\* Paths of the concurrent specification.
FPaths == {1}
Contents == {"a", "b", "c"}
\* File contents of the eviction specification.
EvContents == {"a", "b"}
Threads == {"t1", "t2"}

NoEntry == [contents |-> "none", modified |-> -1]

Limit == IF inst = "manifest" THEN MANIFEST_CACHE_LIMIT ELSE LOCALCONFIG_CACHE_LIMIT

Cached == {p \in DOMAIN cache : cache[p] # NoEntry}
InOrder == {order[i] : i \in 1 .. Len(order)}

\* order.retain(|p| p != path)
Retain(q, p) == SelectSeq(q, LAMBDA x : x # p)

\* Evict as a slip would have it: the newest path is dropped, not the oldest.
EvictBack(c, q, limit) ==
    IF Len(q) > limit
    THEN [cache |-> [c EXCEPT ![q[Len(q)]] = NoEntry], order |-> SubSeq(q, 1, Len(q) - 1)]
    ELSE [cache |-> c, order |-> q]

\* if order.len() > LIMIT { if let Some(old) = order.pop_front() { cache.remove(&old) } }
Evict(c, q, limit) ==
    IF Len(q) > limit
    THEN [cache |-> [c EXCEPT ![Head(q)] = NoEntry], order |-> Tail(q)]
    ELSE [cache |-> c, order |-> q]

\* cache.insert(path, entry); order.retain(..); order.push_back(path); evict
InsertEntry(c, q, p, e, limit) ==
    Evict([c EXCEPT ![p] = e], Append(Retain(q, p), p), limit)

\* CacheHit as a slip would have it: any entry is served, whatever its age.
CacheHitAnyAge(c, p, modified) == c[p] # NoEntry

\* if let Some(entry) = cache.get(path) { if entry.modified >= modified {..} }
CacheHit(c, p, modified) == c[p] # NoEntry /\ c[p].modified >= modified

(***************************************************************************)
(* Steps of the operations, one thread at a time.  fs::metadata runs       *)
(* before the locks are taken; the rest of a read or an update runs with   *)
(* both locks held and is one step.                                        *)
(***************************************************************************)
\* Another thread has written the file and not yet updated the cache.
WriterInFlight(t, p) ==
    \E u \in Threads \ {t} : pc[u] \in {"update_stat", "update_locked"} /\ tpath[u] = p

\* read_*_cached, line 23: let modified = fs::metadata(path).ok()?.modified().ok()?
ReadStat(t, p) ==
    /\ pc[t] = "idle"
    /\ pc' = [pc EXCEPT ![t] = "read_locked"]
    /\ tpath' = [tpath EXCEPT ![t] = p]
    /\ tmod' = [tmod EXCEPT ![t] = fsMtime[p]]
    /\ ret' = [ret EXCEPT ![t] = "none"]
    /\ dirty' = [dirty EXCEPT ![t] = WriterInFlight(t, p)]
    /\ UNCHANGED <<inst, fsContent, fsMtime, cache, order, hi, lastOp, tcont>>
    /\ FileFrame

\* read_*_cached, lines 24-46
ReadLocked(t) ==
    /\ pc[t] = "read_locked"
    /\ LET p == tpath[t] IN
       IF CacheHit(cache, p, tmod[t])
       THEN /\ ret' = [ret EXCEPT ![t] = cache[p].contents]
            /\ UNCHANGED <<cache, order>>
       ELSE LET contents == fsContent[p]
                r == InsertEntry(cache, order, p,
                                 [contents |-> contents, modified |-> tmod[t]], Limit)
            IN /\ cache' = r.cache
               /\ order' = r.order
               /\ ret' = [ret EXCEPT ![t] = contents]
    /\ pc' = [pc EXCEPT ![t] = "idle"]
    /\ tmod' = [tmod EXCEPT ![t] = 0]
    /\ UNCHANGED <<inst, fsContent, fsMtime, hi, lastOp, tpath, tcont, dirty>>
    /\ FileFrame

\* The writers (set_launch_options, set_compat_tool, save_game_config):
\* fs::write(&cfg, &updated), then update_*_cache(&cfg, &updated).  The
\* write of this process may or may not advance the modification time (the
\* file system's timestamp granularity).
WriteFile(t, p, c) ==
    /\ pc[t] = "idle"
    /\ \E m \in {fsMtime[p], fsMtime[p] + 1} :
          /\ m <= MaxTime
          /\ fsMtime' = [fsMtime EXCEPT ![p] = m]
    /\ fsContent' = [fsContent EXCEPT ![p] = c]
    /\ pc' = [pc EXCEPT ![t] = "update_stat"]
    /\ tpath' = [tpath EXCEPT ![t] = p]
    /\ tcont' = [tcont EXCEPT ![t] = c]
    /\ ret' = [ret EXCEPT ![t] = "none"]
    /\ dirty' = [u \in Threads |-> dirty[u] \/ tpath[u] = p]
    /\ UNCHANGED <<inst, cache, order, hi, lastOp, tmod>>
    /\ FileFrame

\* update_*_cache, line 50: fs::metadata(path).and_then(|m| m.modified())
UpdateStat(t) ==
    /\ pc[t] = "update_stat"
    /\ tmod' = [tmod EXCEPT ![t] = fsMtime[tpath[t]]]
    /\ pc' = [pc EXCEPT ![t] = "update_locked"]
    /\ UNCHANGED <<inst, fsContent, fsMtime, cache, order, hi, lastOp,
                   tpath, tcont, ret, dirty>>
    /\ FileFrame

\* update_*_cache, lines 51-66
UpdateLocked(t) ==
    /\ pc[t] = "update_locked"
    /\ LET p == tpath[t]
           r == InsertEntry(cache, order, p,
                            [contents |-> tcont[t], modified |-> tmod[t]], Limit)
       IN /\ cache' = r.cache
          /\ order' = r.order
    /\ pc' = [pc EXCEPT ![t] = "idle"]
    /\ tmod' = [tmod EXCEPT ![t] = 0]
    /\ tcont' = [tcont EXCEPT ![t] = "none"]
    /\ UNCHANGED <<inst, fsContent, fsMtime, hi, lastOp, tpath, ret, dirty>>
    /\ FileFrame

\* clear_*_cache, line 70/71: CACHE.lock().unwrap().clear()
ClearMap(t) ==
    /\ pc[t] = "idle"
    /\ cache' = [p \in DOMAIN cache |-> NoEntry]
    /\ pc' = [pc EXCEPT ![t] = "clear_order"]
    /\ ret' = [ret EXCEPT ![t] = "none"]
    /\ UNCHANGED <<inst, fsContent, fsMtime, order, hi, lastOp, tpath, tmod, tcont, dirty>>
    /\ FileFrame

\* clear_*_cache, line 71/72: ORDER.lock().unwrap().clear()
ClearOrder(t) ==
    /\ pc[t] = "clear_order"
    /\ order' = <<>>
    /\ pc' = [pc EXCEPT ![t] = "idle"]
    /\ UNCHANGED <<inst, fsContent, fsMtime, cache, hi, lastOp, tpath, tmod, tcont, ret, dirty>>
    /\ FileFrame

\* Another process rewrites the file; its modification time advances.
ExternalModify(p, c) ==
    /\ c # fsContent[p]
    /\ fsMtime[p] < MaxTime
    /\ fsContent' = [fsContent EXCEPT ![p] = c]
    /\ fsMtime' = [fsMtime EXCEPT ![p] = fsMtime[p] + 1]
    /\ dirty' = [u \in Threads |-> dirty[u] \/ tpath[u] = p]
    /\ UNCHANGED <<inst, cache, order, hi, lastOp, pc, tpath, tmod, tcont, ret>>
    /\ FileFrame

FileInitOver(paths) ==
    /\ inst \in Insts
    /\ fsContent = [p \in paths |-> "a"]
    /\ fsMtime = [p \in paths |-> 0]
    /\ cache = [p \in paths |-> NoEntry]
    /\ order = <<>>
    /\ hi = 0
    /\ lastOp = [kind |-> "none", path |-> 0, ret |-> "none"]
    /\ pc = [t \in Threads |-> "idle"]
    /\ tpath = [t \in Threads |-> 0]
    /\ tmod = [t \in Threads |-> 0]
    /\ tcont = [t \in Threads |-> "none"]
    /\ ret = [t \in Threads |-> "none"]
    /\ dirty = [t \in Threads |-> FALSE]

\* The per-file caches at rest (for the specifications about other parts).
FileIdle == FileInitOver(FPaths) /\ inst = "manifest"

FileNext ==
    \/ \E t \in Threads, p \in FPaths : ReadStat(t, p)
    \/ \E t \in Threads : ReadLocked(t)
    \/ \E t \in Threads, p \in FPaths, c \in Contents : WriteFile(t, p, c)
    \/ \E t \in Threads : UpdateStat(t)
    \/ \E t \in Threads : UpdateLocked(t)
    \/ \E t \in Threads : ClearMap(t)
    \/ \E t \in Threads : ClearOrder(t)
    \/ \E p \in FPaths, c \in Contents : ExternalModify(p, c)

(***************************************************************************)
(* The same operations run one after another (each call as one step), over *)
(* more paths than either cache holds.  Paths are first used in ascending  *)
(* order (any run is such a run up to renaming of the paths); the paths    *)
(* in Active are the ones used again later.                                *)
(***************************************************************************)
Max(a, b) == IF a >= b THEN a ELSE b

\* read_*_cached(path), lines 22-47
CachedRead(p) ==
    /\ p \in Active \/ p = hi + 1
    /\ hi' = Max(hi, p)
    /\ LET modified == fsMtime[p] IN
       IF CacheHit(cache, p, modified)
       THEN /\ lastOp' = [kind |-> "hit", path |-> p, ret |-> cache[p].contents]
            /\ UNCHANGED <<cache, order>>
       ELSE LET r == InsertEntry(cache, order, p,
                                 [contents |-> fsContent[p], modified |-> modified], Limit)
            IN /\ cache' = r.cache
               /\ order' = r.order
               /\ lastOp' = [kind |-> "miss", path |-> p, ret |-> fsContent[p]]
    /\ UNCHANGED <<inst, fsContent, fsMtime, pc, tpath, tmod, tcont, ret, dirty>>
    /\ FileFrame

\* fs::write(path, contents); update_*_cache(path, contents), lines 49-68
WriteAndUpdate(p, c) ==
    /\ p \in Active
    /\ p <= hi + 1
    /\ hi' = Max(hi, p)
    /\ \E m \in {fsMtime[p], fsMtime[p] + 1} :
          /\ m <= MaxTime
          /\ fsMtime' = [fsMtime EXCEPT ![p] = m]
          /\ LET r == InsertEntry(cache, order, p,
                                  [contents |-> c, modified |-> m], Limit)
             IN /\ cache' = r.cache
                /\ order' = r.order
    /\ fsContent' = [fsContent EXCEPT ![p] = c]
    /\ lastOp' = [kind |-> "update", path |-> p, ret |-> "none"]
    /\ UNCHANGED <<inst, pc, tpath, tmod, tcont, ret, dirty>>
    /\ FileFrame

\* Another process rewrites a file; its modification time advances.
Touch(p, c) ==
    /\ p \in Active
    /\ p <= hi
    /\ c # fsContent[p]
    /\ fsMtime[p] < MaxTime
    /\ fsContent' = [fsContent EXCEPT ![p] = c]
    /\ fsMtime' = [fsMtime EXCEPT ![p] = fsMtime[p] + 1]
    /\ lastOp' = [kind |-> "modify", path |-> p, ret |-> "none"]
    /\ UNCHANGED <<inst, cache, order, hi, pc, tpath, tmod, tcont, ret, dirty>>
    /\ FileFrame

\* clear_*_cache(), lines 69-72 / 70-73
ClearCache ==
    /\ lastOp.kind # "clear"
    /\ cache' = [p \in DOMAIN cache |-> NoEntry]
    /\ order' = <<>>
    /\ lastOp' = [kind |-> "clear", path |-> 0, ret |-> "none"]
    /\ UNCHANGED <<inst, fsContent, fsMtime, hi, pc, tpath, tmod, tcont, ret, dirty>>
    /\ FileFrame

EvictNext ==
    \/ ClearCache
    \/ \E p \in PathIds : CachedRead(p)
    \/ \E p \in PathIds, c \in EvContents : WriteAndUpdate(p, c)
    \/ \E p \in PathIds, c \in EvContents : Touch(p, c)

(***************************************************************************)
(* --------------------- whole-result caches ----------------------------- *)
(* core/steam.rs: LIBRARY_CACHE behind get_steam_libraries (lines 54-102)  *)
(* and MANIFEST_CACHE behind load_games_from_libraries (lines 244-278).    *)
(* `winst` says which of the two a behaviour is about.  Time is in whole   *)
(* seconds.                                                                *)
(***************************************************************************)
CACHE_DURATION == 5

WInsts == {"library", "items"}
\* The library paths listed in libraryfolders.vdf, in the order
\* parse_libraryfolders_vdf yields them.
Listed == <<1, 2>>
\* The `libraries` arguments passed to load_games_from_libraries.
Args == {<<1>>, <<1, 2>>}
\* What the file system holds: the state of libraryfolders.vdf, the listed
\* paths that are directories, and the games installed (game 10 in library
\* 1, game 20 in library 2).
Worlds ==
    {[vdf |-> v, dirs |-> {}, games |-> {}] : v \in {"missing", "unparsable"}}
        \cup {[vdf |-> "ok", dirs |-> d, games |-> {}] : d \in SUBSET {1, 2}}
WorldsItems == {[vdf |-> "ok", dirs |-> {1, 2}, games |-> g] : g \in SUBSET {10, 20}}

\* What a complete recomputation returns on file system w: the listed paths
\* that are directories, in that order; the games of the libraries passed,
\* library by library.
Expected(i, w, a) ==
    IF i = "library"
    THEN SelectSeq(Listed, LAMBDA l : l \in w.dirs)
    ELSE LET G(l) == IF (10 * l) \in w.games THEN <<10 * l>> ELSE <<>>
         IN IF Len(a) = 1 THEN G(a[1]) ELSE G(a[1]) \o G(a[2])

NoCache == [value |-> <<>>, timestamp |-> -1]
NoRet == [thread |-> "none", kind |-> "none", value |-> <<>>]
NoBurst == [start |-> 0, size |-> 0, invalid |-> FALSE, fresh |-> 0, err |-> FALSE]

\* Fresh as a slip would have it: an entry exactly CACHE_DURATION old is served.
FreshInclusive(entry, n) == n - entry.timestamp <= CACHE_DURATION

\* SystemTime::now().duration_since(cached.timestamp).unwrap() < CACHE_DURATION
Fresh(entry, n) == n - entry.timestamp < CACHE_DURATION

\* HolderAfterCheck as a slip would have it: the guard is dropped after the check.
HolderDropped(t) == "none"

\* The MutexGuard `cache` is a local of the whole function: the lock is
\* held from line 55 / 245 until the function returns.
HolderAfterCheck(t) == t

\* load_games_from_library(library), seen from the cache: the games of one
\* library.
LibraryGames(l) == IF (10 * l) \in wfs.games THEN <<10 * l>> ELSE <<>>

\* The call is made; the thread blocks in CACHE.lock().
Call(t, a) ==
    /\ wpc[t] = "idle"
    /\ wpc' = [wpc EXCEPT ![t] = "lock"]
    /\ warg' = [warg EXCEPT ![t] = IF winst = "items" THEN a ELSE <<>>]
    /\ LET invalid == wcache = NoCache \/ ~Fresh(wcache, now) IN
       burst' = IF \A u \in Threads : wpc[u] = "idle"
                THEN [start |-> now, size |-> 1, invalid |-> invalid,
                      fresh |-> 0, err |-> FALSE]
                ELSE [burst EXCEPT !.size = 2, !.invalid = @ /\ invalid]
    /\ UNCHANGED <<winst, now, wfs, wcache, holder, wpend, wacc, wclean, lastRet>>
    /\ TTLFrame

\* lines 55-62 / 245-252: take the lock, return the cached value if valid
Check(t) ==
    /\ wpc[t] = "lock"
    /\ holder = "none"
    /\ IF wcache # NoCache /\ Fresh(wcache, now)
       THEN /\ lastRet' = [thread |-> t, kind |-> "hit", value |-> wcache.value]
            /\ wpc' = [wpc EXCEPT ![t] = "idle"]
            /\ holder' = "none"
       ELSE /\ wpc' = [wpc EXCEPT ![t] = "compute"]
            /\ holder' = HolderAfterCheck(t)
            /\ UNCHANGED lastRet
    /\ UNCHANGED <<winst, now, wfs, wcache, warg, wpend, wacc, wclean, burst>>
    /\ TTLFrame

\* The call returns; the guard is dropped and the locals die.
Return(t, kind, value) ==
    /\ lastRet' = [thread |-> t, kind |-> kind, value |-> value]
    /\ wpc' = [wpc EXCEPT ![t] = "idle"]
    /\ holder' = IF holder = t THEN "none" ELSE holder
    /\ wpend' = [wpend EXCEPT ![t] = <<>>]
    /\ wacc' = [wacc EXCEPT ![t] = <<>>]
    /\ wclean' = [wclean EXCEPT ![t] = TRUE]
    /\ burst' = IF kind = "err" THEN [burst EXCEPT !.err = TRUE]
                ELSE [burst EXCEPT !.fresh = IF @ < 2 THEN @ + 1 ELSE @]

\* get_steam_libraries lines 65-82: find and parse libraryfolders.vdf;
\* load_games_from_libraries lines 258-261: scan every library.
Compute(t) ==
    /\ wpc[t] = "compute"
    /\ IF winst = "library" /\ wfs.vdf = "missing"
       THEN Return(t, "err", <<"SteamConfigNotFound">>)
       ELSE IF winst = "library" /\ wfs.vdf = "unparsable"
       THEN Return(t, "err", <<"Parse">>)
       ELSE /\ wpend' = [wpend EXCEPT ![t] =
                  IF winst = "library"
                  THEN SelectSeq(Listed, LAMBDA l : l \in wfs.dirs)
                  ELSE [i \in 1 .. Len(warg[t]) |-> LibraryGames(warg[t][i])]]
            /\ wpc' = [wpc EXCEPT ![t] = "loop"]
            /\ wclean' = [wclean EXCEPT ![t] = TRUE]
            /\ UNCHANGED <<lastRet, holder, wacc, burst>>
    /\ UNCHANGED <<winst, now, wfs, wcache, warg>>
    /\ TTLFrame

\* lines 85-89: if let Ok(library) = SteamLibrary::new(path) { push }
\* lines 264-269: games.append(&mut library_games)
Loop(t) ==
    /\ wpc[t] = "loop"
    /\ wpend[t] # <<>>
    /\ LET h == Head(wpend[t]) IN
       wacc' = [wacc EXCEPT ![t] =
                  IF winst = "library"
                  THEN (IF h \in wfs.dirs THEN Append(@, h) ELSE @)
                  ELSE @ \o h]
    /\ wpend' = [wpend EXCEPT ![t] = Tail(@)]
    /\ UNCHANGED <<winst, now, wfs, wcache, holder, wpc, warg, wclean, lastRet, burst>>
    /\ TTLFrame

\* A mutation of Store: the empty list is stored before the call fails.
StoreFailure(t) ==
    /\ wpc[t] = "loop"
    /\ wpend[t] = <<>>
    /\ wcache' = [value |-> wacc[t], timestamp |-> now]
    /\ IF winst = "library" /\ wacc[t] = <<>>
       THEN Return(t, "err", <<"SteamNotFound">>)
       ELSE Return(t, "fresh", wacc[t])
    /\ UNCHANGED <<winst, now, wfs, warg>>
    /\ TTLFrame

\* lines 91-101 / 271-277: fail on an empty library list, else store and return
Store(t) ==
    /\ wpc[t] = "loop"
    /\ wpend[t] = <<>>
    /\ IF winst = "library" /\ wacc[t] = <<>>
       THEN /\ Return(t, "err", <<"SteamNotFound">>)
            /\ UNCHANGED wcache
       ELSE /\ wcache' = [value |-> wacc[t], timestamp |-> now]
            /\ Return(t, "fresh", wacc[t])
    /\ UNCHANGED <<winst, now, wfs, warg>>
    /\ TTLFrame

\* A second of wall-clock time passes.
Tick ==
    /\ now < MaxClock
    /\ now' = now + 1
    /\ UNCHANGED <<winst, wfs, wcache, holder, wpc, warg, wpend, wacc, wclean,
                   lastRet, burst>>
    /\ TTLFrame

\* The file system changes under the program.
EnvChange(w) ==
    /\ w # wfs
    /\ wfs' = w
    /\ wclean' = [t \in Threads |-> wclean[t] /\ wpc[t] # "loop"]
    /\ UNCHANGED <<winst, now, wcache, holder, wpc, warg, wpend, wacc, lastRet, burst>>
    /\ TTLFrame

WorldsOf(i) == IF i = "library" THEN Worlds ELSE WorldsItems

TTLInit ==
    /\ winst \in WInsts
    /\ now = 0
    /\ wfs \in WorldsOf(winst)
    /\ wcache = NoCache
    /\ holder = "none"
    /\ wpc = [t \in Threads |-> "idle"]
    /\ warg = [t \in Threads |-> <<>>]
    /\ wpend = [t \in Threads |-> <<>>]
    /\ wacc = [t \in Threads |-> <<>>]
    /\ wclean = [t \in Threads |-> TRUE]
    /\ lastRet = NoRet
    /\ burst = NoBurst

\* The whole-result caches at rest (for the specifications about other parts).
TTLIdle == TTLInit /\ winst = "library" /\ wfs = [vdf |-> "ok", dirs |-> {1, 2}, games |-> {}]

TTLNext ==
    \/ \E t \in Threads, a \in Args : Call(t, a)
    \/ \E t \in Threads : Check(t)
    \/ \E t \in Threads : Compute(t)
    \/ \E t \in Threads : Loop(t)
    \/ \E t \in Threads : Store(t)
    \/ Tick
    \/ \E w \in WorldsOf(winst) : EnvChange(w)

(***************************************************************************)
(* The same two functions when the wall clock may be set back.             *)
(* duration_since returns Err when `now` is earlier than the timestamp,    *)
(* and .unwrap() panics on it with the MutexGuard alive: the guard is      *)
(* dropped by the unwinding and the mutex is poisoned, after which every   *)
(* CACHE.lock().unwrap() panics (lines 55, 245).                           *)
(***************************************************************************)
\* SystemTime::duration_since: Err when the timestamp is later than now
DurationSinceFails(entry, n) == entry # NoCache /\ n < entry.timestamp

\* The call of thread t ends in a panic.
Panics(t) ==
    /\ lastRet' = [thread |-> t, kind |-> "panic", value |-> <<>>]
    /\ wpc' = [wpc EXCEPT ![t] = "idle"]
    /\ UNCHANGED <<winst, now, wfs, wcache, holder, warg, wpend, wacc, wclean, burst>>

\* lines 55-62 / 245-252 for every state of the clock and of the mutex
CheckClock(t) ==
    \/ /\ ~wpoison
       /\ ~DurationSinceFails(wcache, now)
       /\ Check(t)
    \/ /\ wpc[t] = "lock"
       /\ holder = "none"
       /\ wpoison
       /\ Panics(t)
       /\ UNCHANGED clkVars
       /\ ClockFrame
    \/ /\ wpc[t] = "lock"
       /\ holder = "none"
       /\ ~wpoison
       /\ DurationSinceFails(wcache, now)
       /\ Panics(t)
       /\ wpoison' = TRUE
       /\ UNCHANGED wbacks
       /\ ClockFrame

\* The wall clock is set back by a second (NTP step, manual change).
ClockBack ==
    /\ wbacks < MaxBacks
    /\ now > 0
    /\ now' = now - 1
    /\ wbacks' = wbacks + 1
    /\ UNCHANGED <<winst, wfs, wcache, holder, wpc, warg, wpend, wacc, wclean,
                   lastRet, burst, wpoison>>
    /\ ClockFrame

ClockWorld(i) ==
    IF i = "library" THEN [vdf |-> "ok", dirs |-> {1, 2}, games |-> {}]
    ELSE [vdf |-> "ok", dirs |-> {1, 2}, games |-> {10, 20}]
ClockIdle == wpoison = FALSE /\ wbacks = 0
ClockInit == TTLInit /\ wfs = ClockWorld(winst) /\ ClockIdle

ClockNext ==
    \/ \E t \in Threads, a \in Args : Call(t, a)
    \/ \E t \in Threads : CheckClock(t)
    \/ \E t \in Threads : Compute(t)
    \/ \E t \in Threads : Loop(t)
    \/ \E t \in Threads : Store(t)
    \/ Tick
    \/ ClockBack

(***************************************************************************)
(* -------------------------- the item scanner --------------------------- *)
(* core/steam.rs: load_games_from_library (lines 194-241) and the          *)
(* recomputation of load_games_from_libraries (lines 255-269).  A library  *)
(* is its steamapps directory (the entries read_dir yields, with what      *)
(* parse_appmanifest makes of each) and its compatdata directory (entry    *)
(* names).  Names are sequences of characters; read_dir yields the entries *)
(* in any order.                                                           *)
(***************************************************************************)
Digits == <<"0", "1", "2", "3", "4", "5", "6", "7", "8", "9">>
IsDigit(ch) == \E i \in 1 .. 10 : Digits[i] = ch
DigitVal(ch) == (CHOOSE i \in 1 .. 10 : Digits[i] = ch) - 1

\* str::parse::<u32>() on a directory name: -1 stands for Err.
RECURSIVE ParseDigits(_, _)
ParseDigits(str, acc) ==
    IF str = <<>> THEN acc
    ELSE IF ~IsDigit(Head(str)) THEN -1
    ELSE ParseDigits(Tail(str), 10 * acc + DigitVal(Head(str)))
ParseU32(str) == IF str = <<>> THEN -1 ELSE ParseDigits(str, 0)

\* u32::to_string()
RECURSIVE U32ToString(_)
U32ToString(n) == IF n < 10 THEN <<Digits[n + 1]>>
               ELSE Append(U32ToString(n \div 10), Digits[(n % 10) + 1])

NoManifest == [appid |-> -1, name |-> <<>>, played |-> 0]
\* Entries a steamapps directory may hold: the file name (prefix, stem,
\* extension) and what parse_appmanifest returns for it.
SteamappsPool1 ==
    { [fname |-> <<"appmanifest_", "1", ".acf">>, parsed |-> [appid |-> 1, name |-> <<"A">>, played |-> 5]],
      [fname |-> <<"appmanifest_", "2", ".acf">>, parsed |-> [appid |-> 2, name |-> <<>>, played |-> 7]],
      [fname |-> <<"appmanifest_", "0", ".acf">>, parsed |-> [appid |-> 0, name |-> <<"Z">>, played |-> 0]],
      [fname |-> <<"appmanifest_", "3", ".acf">>, parsed |-> NoManifest],
      [fname |-> <<"libraryfolders", "", ".vdf">>, parsed |-> NoManifest] }
SteamappsPool2 ==
    { [fname |-> <<"appmanifest_", "1", ".acf">>, parsed |-> [appid |-> 1, name |-> <<"A">>, played |-> 9]] }
\* Entry names a compatdata directory may hold.
CompatPool1 == { <<"1">>, <<"0">>, <<"x">> }
CompatPool2 == { <<"1">>, <<"0", "7">> }
ScanLibs == {1, 2}
ScanArgs == { <<1>>, <<1, 2>>, <<2, 1>> }
ScanWorlds ==
    { [l \in ScanLibs |-> IF l = 1 THEN [steamapps |-> s1, compat |-> c1]
                                   ELSE [steamapps |-> s2, compat |-> c2]] :
        s1 \in SUBSET SteamappsPool1, c1 \in SUBSET CompatPool1,
        s2 \in SUBSET SteamappsPool2, c2 \in SUBSET CompatPool2 }

\* fname.starts_with("appmanifest_") && fname.ends_with(".acf"), line 202
IsManifestName(fname) == fname[1] = "appmanifest_" /\ fname[3] = ".acf"

\* A mutation of GameInfoNew: nothing is validated.
GameInfoNewUnchecked(app_id, name, prefix_path, has_manifest, last_played) ==
    << [app_id |-> app_id, name |-> name, prefix_path |-> prefix_path,
        has_manifest |-> has_manifest, last_played |-> last_played] >>
\* GameInfo::new (core/models.rs 27-43): <<>> stands for Err.
GameInfoNew(app_id, name, prefix_path, has_manifest, last_played) ==
    IF app_id = 0 THEN <<>>
    ELSE IF name = <<>> THEN <<>>
    ELSE << [app_id |-> app_id, name |-> name, prefix_path |-> prefix_path,
             has_manifest |-> has_manifest, last_played |-> last_played] >>

\* format!("App {}", appid), line 228
AppName(appid) == <<"A", "p", "p", " ">> \o U32ToString(appid)

\* games.iter().any(|g| g.app_id() == appid), line 224
AlreadyListed(games, appid) == \E i \in 1 .. Len(games) : games[i].app_id = appid

ScanBegin(a) ==
    /\ sphase \in {"idle", "done"}
    /\ sarg' = a
    /\ sidx' = 1
    /\ sphase' = "manifests"
    /\ stodo' = sfs[a[1]].steamapps
    /\ sgames' = <<>>
    /\ sresult' = <<>>
    /\ UNCHANGED sfs
    /\ ScanFrame

\* One turn of the loop of lines 199-213.
ScanManifest(e) ==
    /\ sphase = "manifests"
    /\ e \in stodo
    /\ stodo' = stodo \ {e}
    /\ sgames' = IF IsManifestName(e.fname) /\ e.parsed # NoManifest
                 THEN sgames \o GameInfoNew(e.parsed.appid, e.parsed.name,
                                            [lib |-> sarg[sidx], dir |-> U32ToString(e.parsed.appid)],
                                            TRUE, e.parsed.played)
                 ELSE sgames
    /\ UNCHANGED <<sfs, sarg, sidx, sphase, sresult>>
    /\ ScanFrame

\* read_dir(compatdata), lines 217-218
ScanCompatBegin ==
    /\ sphase = "manifests"
    /\ stodo = {}
    /\ sphase' = "compat"
    /\ stodo' = sfs[sarg[sidx]].compat
    /\ UNCHANGED <<sfs, sarg, sidx, sgames, sresult>>
    /\ ScanFrame

\* One turn of the loop of lines 219-237.
ScanCompat(c) ==
    /\ sphase = "compat"
    /\ c \in stodo
    /\ stodo' = stodo \ {c}
    /\ LET appid == ParseU32(c) IN
       sgames' = IF appid # -1 /\ ~AlreadyListed(sgames, appid)
                 THEN sgames \o GameInfoNew(appid, AppName(appid), [lib |-> sarg[sidx], dir |-> c],
                                            FALSE, 0)
                 ELSE sgames
    /\ UNCHANGED <<sfs, sarg, sidx, sphase, sresult>>
    /\ ScanFrame

\* Ok(games) of one library appended to the combined vector (lines 264-269);
\* after the last library the vector is what the scan returns.
ScanLibraryDone ==
    /\ sphase = "compat"
    /\ stodo = {}
    /\ sresult' = sresult \o sgames
    /\ sgames' = <<>>
    /\ IF sidx < Len(sarg)
       THEN /\ sidx' = sidx + 1
            /\ sphase' = "manifests"
            /\ stodo' = sfs[sarg[sidx + 1]].steamapps
       ELSE /\ sphase' = "done"
            /\ UNCHANGED <<sidx, stodo>>
    /\ UNCHANGED <<sfs, sarg>>
    /\ ScanFrame

ScanInit ==
    /\ sfs \in ScanWorlds
    /\ sarg = <<1>>
    /\ sidx = 1
    /\ sphase = "idle"
    /\ stodo = {}
    /\ sgames = <<>>
    /\ sresult = <<>>

ScanIdle ==
    /\ ScanInit
    /\ sfs = [l \in ScanLibs |-> [steamapps |-> {}, compat |-> {}]]

ScanNext ==
    \/ \E a \in ScanArgs : ScanBegin(a)
    \/ \E e \in stodo : ScanManifest(e)
    \/ ScanCompatBegin
    \/ \E c \in stodo : ScanCompat(c)
    \/ ScanLibraryDone

(***************************************************************************)
(* ------------------------- the runtime matcher ------------------------- *)
(* utils/prefix_repair.rs: find_proton_runtime (lines 38-119).  Labels and *)
(* directory names are sequences of characters.  A root (a library's       *)
(* steamapps/common, or a tool directory) is the set of its entries; an    *)
(* entry has a name and is a directory or a plain file.                    *)
(***************************************************************************)
sProton == <<"P", "r", "o", "t", "o", "n">>
\* Version labels handed to the matcher (trimmed and non-empty, as
\* detect_proton_version returns them).
Labels == { <<"P", "r", "o", "t", "o", "n", " ", "8", "-", "5">>, <<"8", "-", "5">>, <<"P", "r", "o", "t", "o", "n">>, <<"G", "E", "-", "P", "r", "o", "t", "o", "n", "8">> }
\* Entries a root may hold.
dExact == [name |-> <<"P", "r", "o", "t", "o", "n", " ", "8", "-", "5">>, dir |-> TRUE]
dShort == [name |-> <<"P", "r", "o", "t", "o", "n", " ", "8">>, dir |-> TRUE]
dLower == [name |-> <<"p", "r", "o", "t", "o", "n", " ", "8", "-", "5">>, dir |-> TRUE]
dCustom == [name |-> <<"G", "E", "-", "P", "r", "o", "t", "o", "n", "8">>, dir |-> TRUE]
dGame == [name |-> <<"G", "a", "m", "e">>, dir |-> TRUE]
fExact == [name |-> <<"P", "r", "o", "t", "o", "n", " ", "8", "-", "5">>, dir |-> FALSE]
RootContents == { {}, {dExact}, {dShort}, {dGame}, {fExact}, {dCustom, dLower} }

\* char::to_lowercase over the characters in use
ToLowerChar(ch) ==
    CASE ch = "P" -> "p" [] ch = "G" -> "g" [] ch = "E" -> "e" [] OTHER -> ch
\* str::to_lowercase
ToLower(str) == [i \in 1 .. Len(str) |-> ToLowerChar(str[i])]

IsSpace(ch) == ch = " " \/ ch = "\n"
RECURSIVE TrimStart(_)
TrimStart(str) ==
    IF str # <<>> /\ IsSpace(Head(str)) THEN TrimStart(Tail(str)) ELSE str
RECURSIVE TrimEnd(_)
TrimEnd(str) ==
    IF str # <<>> /\ IsSpace(str[Len(str)])
    THEN TrimEnd(SubSeq(str, 1, Len(str) - 1)) ELSE str
\* str::trim
Trim(str) == TrimEnd(TrimStart(str))

\* str::starts_with
StartsWith(str, pre) == Len(str) >= Len(pre) /\ SubSeq(str, 1, Len(pre)) = pre

\* str::trim_start_matches: the prefix is removed as often as it repeats.
RECURSIVE TrimStartMatches(_, _)
TrimStartMatches(str, pre) ==
    IF pre # <<>> /\ StartsWith(str, pre)
    THEN TrimStartMatches(SubSeq(str, Len(pre) + 1, Len(str)), pre)
    ELSE str

\* .split(|c| c == '-' || c == ' ').next(): the piece before the first
\* separator (the whole string if there is none, empty if it starts with one).
RECURSIVE FirstToken(_)
FirstToken(str) ==
    IF str = <<>> \/ Head(str) \in {"-", " "} THEN <<>>
    ELSE <<Head(str)>> \o FirstToken(Tail(str))

\* str::contains
Contains(hay, needle) ==
    \E i \in 0 .. (Len(hay) - Len(needle)) : SubSeq(hay, i + 1, i + Len(needle)) = needle

\* lines 39-57
Candidates(version) ==
    LET normalized == Trim(version) IN
    IF ~StartsWith(ToLower(normalized), ToLower(sProton))
    THEN <<version, sProton \o <<" ">> \o FirstToken(normalized)>>
    ELSE LET rest == FirstToken(Trim(TrimStartMatches(normalized, sProton))) IN
         IF rest # <<>> THEN <<version, sProton \o <<" ">> \o rest>> ELSE <<version>>

\* lines 70-76 and 100-106
FuzzyBase(version) ==
    ToLower(FirstToken(Trim(TrimStartMatches(Trim(version), sProton))))

NoPath == [kind |-> "none", root |-> 0, name |-> <<>>]
\* path.exists(): an entry of that name, directory or not
Exists(root, name) == \E e \in root : e.name = name

\* lines 60-67 (roots = the libraries) and 93-98 (roots = one tool directory):
\* candidates outermost, roots innermost; the first existing path, if any.
ExactHits(kind, roots, idxs, cands) ==
    LET hitC == { c \in 1 .. Len(cands) : \E r \in idxs : Exists(roots[r], cands[c]) } IN
    IF hitC = {} THEN {}
    ELSE LET c == CHOOSE c \in hitC : \A d \in hitC : c <= d
             hitR == { r \in idxs : Exists(roots[r], cands[c]) }
             r == CHOOSE r \in hitR : \A q \in hitR : r <= q
         IN { [kind |-> kind, root |-> r, name |-> cands[c]] }

\* lines 81-85 / 109-113: is_dir and the lower-cased name contains the
\* lower-cased label or the base
FuzzyMatch(e, version) ==
    /\ e.dir
    /\ \/ Contains(ToLower(e.name), ToLower(Trim(version)))
       \/ Contains(ToLower(e.name), FuzzyBase(version))

\* lines 77-88 / 108-115: roots in order, entries in read_dir order; any
\* matching entry of the first root that has one may come first.
FuzzyHits(kind, roots, idxs, version) ==
    LET hitR == { r \in idxs : \E e \in roots[r] : FuzzyMatch(e, version) } IN
    IF hitR = {} THEN {}
    ELSE LET r == CHOOSE r \in hitR : \A q \in hitR : r <= q
         IN { [kind |-> kind, root |-> r, name |-> e.name] :
                e \in { e \in roots[r] : FuzzyMatch(e, version) } }

RtWorlds ==
    { [libsOk |-> ok, libs |-> <<l1, l2>>, tools |-> <<t1, t2>>] :
        ok \in BOOLEAN, l1 \in RootContents, l2 \in RootContents,
        t1 \in RootContents, t2 \in RootContents }

\* steam_paths::compatibilitytools_dirs(): the configured tool-installation
\* roots, in their order.
compatibilitytools_dirs == rfs.tools

\* line 38; `if let Ok(libs) = steam::get_steam_libraries()`, line 59
RtBegin(version) ==
    /\ rpc \in {"start", "done"}
    /\ rlabel' = version
    /\ rfound' = NoPath
    /\ rstages' = <<>>
    /\ rtool' = 1
    /\ rpc' = IF rfs.libsOk THEN "exactLibs" ELSE "toolExact"
    /\ UNCHANGED rfs
    /\ RtFrame

\* lines 60-67
RtExactLibs ==
    /\ rpc = "exactLibs"
    /\ rstages' = Append(rstages, "exactLibs")
    /\ LET hits == ExactHits("lib", rfs.libs, DOMAIN rfs.libs, Candidates(rlabel)) IN
       IF hits # {}
       THEN \E h \in hits : rfound' = h /\ rpc' = "done"
       ELSE rpc' = "fuzzyLibs" /\ UNCHANGED rfound
    /\ UNCHANGED <<rfs, rlabel, rtool>>
    /\ RtFrame

\* lines 69-89
RtFuzzyLibs ==
    /\ rpc = "fuzzyLibs"
    /\ rstages' = Append(rstages, "fuzzyLibs")
    /\ LET hits == FuzzyHits("lib", rfs.libs, DOMAIN rfs.libs, rlabel) IN
       IF hits # {}
       THEN \E h \in hits : rfound' = h /\ rpc' = "done"
       ELSE rpc' = "toolExact" /\ UNCHANGED rfound
    /\ UNCHANGED <<rfs, rlabel, rtool>>
    /\ RtFrame

\* lines 92-98, for the tool directory rtool
RtToolExact ==
    /\ rpc = "toolExact"
    /\ rtool <= Len(compatibilitytools_dirs)
    /\ rstages' = Append(rstages, "toolExact")
    /\ LET hits == ExactHits("tool", compatibilitytools_dirs, {rtool}, Candidates(rlabel)) IN
       IF hits # {}
       THEN \E h \in hits : rfound' = h /\ rpc' = "done"
       ELSE rpc' = "toolFuzzy" /\ UNCHANGED rfound
    /\ UNCHANGED <<rfs, rlabel, rtool>>
    /\ RtFrame

\* lines 100-116, for the tool directory rtool
RtToolFuzzy ==
    /\ rpc = "toolFuzzy"
    /\ rstages' = Append(rstages, "toolFuzzy")
    /\ LET hits == FuzzyHits("tool", compatibilitytools_dirs, {rtool}, rlabel) IN
       IF hits # {}
       THEN /\ \E h \in hits : rfound' = h /\ rpc' = "done"
            /\ UNCHANGED rtool
       ELSE /\ rpc' = "toolExact"
            /\ rtool' = rtool + 1
            /\ UNCHANGED rfound
    /\ UNCHANGED <<rfs, rlabel>>
    /\ RtFrame

\* line 118: None
RtNone ==
    /\ rpc = "toolExact"
    /\ rtool > Len(compatibilitytools_dirs)
    /\ rpc' = "done"
    /\ rfound' = NoPath
    /\ UNCHANGED <<rfs, rlabel, rtool, rstages>>
    /\ RtFrame

RtInitOver(worlds) ==
    /\ rfs \in worlds
    /\ rlabel = <<>>
    /\ rpc = "start"
    /\ rtool = 1
    /\ rfound = NoPath
    /\ rstages = <<>>

RtIdle == RtInitOver({[libsOk |-> TRUE, libs |-> <<{}, {}>>, tools |-> <<{}, {}>>]})

RtNext ==
    \/ \E v \in Labels : RtBegin(v)
    \/ RtExactLibs
    \/ RtFuzzyLibs
    \/ RtToolExact
    \/ RtToolFuzzy
    \/ RtNone

\* find_proton_runtime as a whole (lines 59-118): the paths it may return on
\* the roots w, NoPath for None.
RECURSIVE ToolSearch(_, _, _)
ToolSearch(version, tools, i) ==
    IF i > Len(tools) THEN {NoPath}
    ELSE LET exact == ExactHits("tool", tools, {i}, Candidates(version))
             fuzzy == FuzzyHits("tool", tools, {i}, version)
         IN IF exact # {} THEN exact
            ELSE IF fuzzy # {} THEN fuzzy
            ELSE ToolSearch(version, tools, i + 1)

find_proton_runtime(version, w) ==
    LET exact == ExactHits("lib", w.libs, DOMAIN w.libs, Candidates(version))
        fuzzy == FuzzyHits("lib", w.libs, DOMAIN w.libs, version)
    IN IF w.libsOk /\ exact # {} THEN exact
       ELSE IF w.libsOk /\ fuzzy # {} THEN fuzzy
       ELSE ToolSearch(version, w.tools, 1)

(***************************************************************************)
(* ---------------------- the repair state machine ----------------------- *)
(* utils/prefix_repair.rs: detect_proton_version (9-36), find_wineboot     *)
(* (121-133), find_wine (135-150), repair_prefix (156-220); error.rs.      *)
(* A directory is "absent", "old" (there before the run, with its          *)
(* content), "new" (created empty by the run) or "file" (a plain file is   *)
(* in its place).                                                          *)
(***************************************************************************)
\* io::ErrorKind of a failed system call
IoErrors == {"PermissionDenied", "NotFound", "Other"}
\* Exit statuses of the bootstrap process; -1 is death by signal (no code).
ExitStatuses == {0, 1, 2, -1}
NoExit == -2

\* Content of a `version` file; NoFile if there is none, Unreadable if
\* read_to_string fails.
NoFile == <<"?">>
Unreadable == <<"!">>
VersionFiles == { NoFile, Unreadable, <<" ", "\n">>, <<"8", "-", "5", "\n">>, <<"P", "r", "o", "t", "o", "n", " ", "8", "-", "5">> }
ParentVersionFiles == { NoFile, <<"P", "r", "o", "t", "o", "n", " ", "8">> }

\* Files a runtime directory may hold, among those find_wineboot and
\* find_wine look for.
RuntimeBins ==
    { {}, {"bin/wineboot"}, {"files/bin/wineboot", "bin/wine"},
      {"bin/wine"}, {"files/bin/wine64", "bin/wine64"} }

\* What is installed where, as far as a repair is concerned.
RepairRoots ==
    { [libsOk |-> TRUE, libs |-> <<{}, {}>>, tools |-> <<{}, {}>>],
      [libsOk |-> TRUE, libs |-> <<{dExact}, {}>>, tools |-> <<{}, {}>>],
      [libsOk |-> FALSE, libs |-> <<{}, {}>>, tools |-> <<{dShort}, {}>>] }

PrefixDirs ==
    { [pfx |-> "absent", drive_c |-> "absent", dosdevices |-> "absent"],
      [pfx |-> "file", drive_c |-> "absent", dosdevices |-> "absent"] }
        \cup { [pfx |-> "old", drive_c |-> d, dosdevices |-> e] :
                 d \in {"absent", "old"}, e \in {"absent", "old"} }

\* impl From<io::Error> for Error, error.rs 49-56
ErrorFrom(io) ==
    IF io = "PermissionDenied"
    THEN [variant |-> "PermissionDenied", detail |-> <<>>]
    ELSE [variant |-> "Io", detail |-> <<io>>]

\* Error::FileSystemError("wineboot failed".into())
WinebootFailed == [variant |-> "FileSystemError", detail |-> <<"wineboot", "failed">>]

\* impl fmt::Display for Error, error.rs 21-38, as a sequence of words
Display(err) ==
    CASE err.variant = "Io" -> <<"I/O", "error:">> \o err.detail
      [] err.variant = "FileSystemError" -> <<"File", "system", "error:">> \o err.detail
      [] err.variant = "PermissionDenied" -> <<"Permission", "denied", "accessing:">> \o err.detail
      [] OTHER -> err.detail

NoError == [variant |-> "none", detail |-> <<>>]
Ok == [ok |-> TRUE, err |-> NoError]
Err(e) == [ok |-> FALSE, err |-> e]
NoReturn == [ok |-> FALSE, err |-> NoError]

\* fs::create_dir_all as a slip would have it: the directory is made anew.
CreateDirAllAnew(state) == "new"

\* fs::create_dir_all that succeeds: an absent directory is created, a
\* present one is left alone.
CreateDirAll(state) == IF state = "absent" THEN "new" ELSE state

\* ExitStatus::success as a slip would have it.
SuccessAlways(status) == TRUE

\* ExitStatus::success
Success(status) == status = 0

\* One `version` file read by detect_proton_version (lines 12-19 / 24-31):
\* the trimmed content, <<>> if the file gives no label.
LabelIn(file) ==
    IF file \in {NoFile, Unreadable} THEN <<>> ELSE Trim(file)

\* detect_proton_version: <<>> stands for None.
detect_proton_version ==
    IF LabelIn(pversion) # <<>> THEN LabelIn(pversion) ELSE LabelIn(parentver)

\* The first existing candidate, "" for None.
FirstExisting(cands, files) ==
    IF \E i \in DOMAIN cands : cands[i] \in files
    THEN cands[CHOOSE i \in DOMAIN cands :
                 cands[i] \in files /\ \A j \in 1 .. (i - 1) : cands[j] \notin files]
    ELSE ""

\* The relative paths find_wineboot (122-126) and find_wine (136-143) try.
WinebootCandidates == <<"dist/bin/wineboot", "files/bin/wineboot", "bin/wineboot">>
WineCandidates == <<"dist/bin/wine64", "dist/bin/wine", "files/bin/wine64",
                    "files/bin/wine", "bin/wine64", "bin/wine">>

find_wineboot(files) == FirstExisting(WinebootCandidates, files)

\* find_wine as a slip would have it: wine is never looked for.
find_wine_never(files) == ""

find_wine(files) == FirstExisting(WineCandidates, files)

PfxPath == "prefix/pfx"
SystemWineboot == [program |-> [runtime |-> NoPath, file |-> "wineboot"],
                   args |-> <<"-u">>, WINEPREFIX |-> PfxPath]
NoPlan == [program |-> [runtime |-> NoPath, file |-> ""], args |-> <<>>, WINEPREFIX |-> ""]
NoRuntime == [label |-> <<>>, path |-> NoPath]

\* The run returns Err(e).
Fail(io) ==
    /\ ppc' = "Failed"
    /\ pio' = io
    /\ pret' = Err(ErrorFrom(io))
    /\ pphases' = Append(pphases, "Failed")

\* lines 158-162
EnsurePfx ==
    /\ ppc = "Start"
    /\ IF pdirs.pfx # "absent"
       THEN /\ ppc' = "pfx"
            /\ UNCHANGED <<pdirs, pio, pret, pphases>>
       ELSE \/ /\ pdirs' = [pdirs EXCEPT !.pfx = CreateDirAll(@)]
               /\ ppc' = "pfx"
               /\ UNCHANGED <<pio, pret, pphases>>
            \/ \E io \in IoErrors : Fail(io) /\ UNCHANGED pdirs
    /\ UNCHANGED <<pstamp, pversion, parentver, rbins, pplan, pruntime, pstarted,
                   pexit, pbefore, pruns>>
    /\ RepairFrame

\* line 167; under a plain file nothing can be created
EnsureDriveC ==
    /\ ppc = "pfx"
    /\ \/ /\ pdirs.pfx # "file"
          /\ pdirs' = [pdirs EXCEPT !.drive_c = CreateDirAll(@)]
          /\ ppc' = "drive_c"
          /\ UNCHANGED <<pio, pret, pphases>>
       \/ \E io \in IoErrors :
            /\ pdirs.pfx = "file" => io = "Other"
            /\ Fail(io)
            /\ UNCHANGED pdirs
    /\ UNCHANGED <<pstamp, pversion, parentver, rbins, pplan, pruntime, pstarted,
                   pexit, pbefore, pruns>>
    /\ RepairFrame

\* lines 169-170: the result of File::create is dropped
EnsureDosdevices ==
    /\ ppc = "drive_c"
    /\ \/ /\ pdirs' = [pdirs EXCEPT !.dosdevices = CreateDirAll(@)]
          /\ ppc' = "DirectoriesEnsured"
          /\ pphases' = Append(pphases, "DirectoriesEnsured")
          /\ pstamp' \in BOOLEAN
          /\ UNCHANGED <<pio, pret>>
       \/ \E io \in IoErrors : Fail(io) /\ UNCHANGED <<pdirs, pstamp>>
    /\ UNCHANGED <<pversion, parentver, rbins, pplan, pruntime, pstarted, pexit,
                   pbefore, pruns>>
    /\ RepairFrame

\* lines 173-205: the label, the runtime and the program to run
LocateRuntime ==
    /\ ppc = "DirectoriesEnsured"
    /\ ppc' = "RuntimeLookup"
    /\ pphases' = Append(pphases, "RuntimeLookup")
    /\ LET version == detect_proton_version IN
       IF version = <<>>
       THEN pruntime' = NoRuntime /\ pplan' = SystemWineboot
       ELSE \E runtime \in find_proton_runtime(version, rfs) :
              /\ pruntime' = [label |-> version, path |-> runtime]
              /\ pplan' =
                   IF runtime = NoPath THEN SystemWineboot
                   ELSE IF find_wineboot(rbins) # ""
                   THEN [program |-> [runtime |-> runtime, file |-> find_wineboot(rbins)],
                         args |-> <<"-u">>, WINEPREFIX |-> PfxPath]
                   ELSE IF find_wine(rbins) # ""
                   THEN [program |-> [runtime |-> runtime, file |-> find_wine(rbins)],
                         args |-> <<"wineboot", "-u">>, WINEPREFIX |-> PfxPath]
                   ELSE SystemWineboot
    /\ UNCHANGED <<pdirs, pstamp, pversion, parentver, rbins, pstarted, pexit, pio,
                   pret, pbefore, pruns>>
    /\ RepairFrame

\* Command::status(): the process is started, or starting it fails
\* (lines 179-183, 190-195, 208-212)
Invoke ==
    /\ ppc = "RuntimeLookup"
    /\ pphases' = Append(pphases, "BootstrapInvoked")
    /\ \/ /\ ppc' = "BootstrapInvoked"
          /\ pstarted' = pstarted + 1
          /\ UNCHANGED pio
       \/ \E io \in IoErrors :
            /\ ppc' = "NotStarted"
            /\ pio' = io
            /\ UNCHANGED pstarted
    /\ UNCHANGED <<pdirs, pstamp, pversion, parentver, rbins, pplan, pruntime, pexit,
                   pret, pbefore, pruns>>
    /\ RepairFrame

\* .map_err(Error::from)? on a process that did not start
StartFailed ==
    /\ ppc = "NotStarted"
    /\ ppc' = "Failed"
    /\ pret' = Err(ErrorFrom(pio))
    /\ pphases' = Append(pphases, "Failed")
    /\ UNCHANGED <<pdirs, pstamp, pversion, parentver, rbins, pplan, pruntime,
                   pstarted, pexit, pio, pbefore, pruns>>
    /\ RepairFrame

\* The process ends with `status` (lines 184-187, 196-199, 213-216); the
\* bootstrap fills the directories it works on.
Exit(status) ==
    /\ ppc = "BootstrapInvoked"
    /\ pexit' = status
    /\ IF Success(status)
       THEN /\ ppc' = "Success"
            /\ pret' = Ok
            /\ pphases' = Append(pphases, "Success")
       ELSE /\ ppc' = "Failed"
            /\ pret' = Err(WinebootFailed)
            /\ pphases' = Append(pphases, "Failed")
    /\ UNCHANGED <<pdirs, pstamp, pversion, parentver, rbins, pplan, pruntime,
                   pstarted, pio, pbefore, pruns>>
    /\ RepairFrame

\* repair_prefix is called again on the prefix as the last run left it.
RepairAgain ==
    /\ ppc \in {"Success", "Failed"}
    /\ pruns < MaxRuns
    /\ pruns' = pruns + 1
    /\ ppc' = "Start"
    /\ pdirs' = [d \in DOMAIN pdirs |-> IF pdirs[d] = "new" THEN "old" ELSE pdirs[d]]
    /\ pbefore' = pdirs'
    /\ pstamp' = FALSE
    /\ pplan' = NoPlan
    /\ pruntime' = NoRuntime
    /\ pstarted' = 0
    /\ pexit' = NoExit
    /\ pio' = "none"
    /\ pret' = NoReturn
    /\ pphases' = <<"Start">>
    /\ UNCHANGED <<pversion, parentver, rbins>>
    /\ RepairFrame

RepairInitOver(dirs, versions, parents, bins) ==
    /\ pdirs \in dirs
    /\ pbefore = pdirs
    /\ pstamp = FALSE
    /\ pversion \in versions
    /\ parentver \in parents
    /\ rbins \in bins
    /\ ppc = "Start"
    /\ pplan = NoPlan
    /\ pruntime = NoRuntime
    /\ pstarted = 0
    /\ pexit = NoExit
    /\ pio = "none"
    /\ pret = NoReturn
    /\ pphases = <<"Start">>
    /\ pruns = 1

RepairInit == RepairInitOver(PrefixDirs, VersionFiles, ParentVersionFiles, RuntimeBins)

RepairIdle ==
    RepairInitOver({[pfx |-> "absent", drive_c |-> "absent", dosdevices |-> "absent"]},
                   {NoFile}, {NoFile}, {{}})

RepairNext ==
    \/ EnsurePfx
    \/ EnsureDriveC
    \/ EnsureDosdevices
    \/ LocateRuntime
    \/ Invoke
    \/ StartFailed
    \/ \E status \in ExitStatuses : Exit(status)
    \/ RepairAgain

(***************************************************************************)
(* --------------------------- path discovery ---------------------------- *)
(* utils/steam_paths.rs.  A path is the sequence of its components below   *)
(* the home directory; a real (symlink-free) directory is a path of one    *)
(* component.  The file system says which real directory each conventional *)
(* location is, and which real directory the `config` and `userdata`       *)
(* entries of a real Steam directory are.  `exists` and `canonicalize`     *)
(* follow symbolic links alike, so a path that exists has a canonical      *)
(* form and the `unwrap_or_else(|_| cand.clone())` arm is not taken.       *)
(***************************************************************************)
Missing == "missing"
RealBases == {"S1", "S2"}
RealConfigs == {"C1", "C2"}
RealUserdata == {"U1", "U2"}
\* lines 13-19
BaseCandidates ==
    << <<".steam/steam">>, <<".local/share/Steam">>, <<".steam/root">>,
       <<".steam/debian-installation">>, <<".steam">> >>
\* lines 56-62
ConfigCandidates ==
    << <<".steam/steam", "config">>, <<".local/share/Steam", "config">>,
       <<".steam", "config">>, <<".steam/root", "config">>,
       <<".steam/debian-installation", "config">> >>
BaseNames == { BaseCandidates[i][1] : i \in 1 .. Len(BaseCandidates) }

\* PathBuf::join
Join(path, name) == Append(path, name)

\* The real directory a path leads to, Missing if it leads nowhere.
ResolveBase(fs, name) == IF name \in RealBases THEN name ELSE fs.base[name]
Resolve(fs, path) ==
    LET base == ResolveBase(fs, path[1]) IN
    IF Len(path) = 1 \/ base = Missing THEN base
    ELSE IF path[2] = "config" THEN fs.config[base] ELSE fs.userdata[base]
\* Path::exists
PathExists(fs, path) == Resolve(fs, path) # Missing
\* A mutation of Canonicalize: the path as spelled.
CanonicalizeLexical(fs, path) == path
\* std::fs::canonicalize(&cand).unwrap_or_else(|_| cand.clone()), line 25
Canonicalize(fs, path) == <<Resolve(fs, path)>>

\* The loop shared by the three functions (lines 22-31, 41-48, 65-74):
\* if cand.exists() { canon = canonicalize; if seen.insert(canon) { dirs.push(canon) } }
RECURSIVE CollectDirs(_, _, _, _)
CollectDirs(fs, cands, seen, dirs) ==
    IF cands = <<>> THEN dirs
    ELSE LET cand == Head(cands) IN
         IF ~PathExists(fs, cand) THEN CollectDirs(fs, Tail(cands), seen, dirs)
         ELSE LET canon == Canonicalize(fs, cand) IN
              IF canon \in seen THEN CollectDirs(fs, Tail(cands), seen, dirs)
              ELSE CollectDirs(fs, Tail(cands), seen \cup {canon}, Append(dirs, canon))

\* lines 10-34
steam_base_dirs(fs) ==
    IF ~fs.home THEN <<>> ELSE CollectDirs(fs, BaseCandidates, {}, <<>>)
\* lines 37-50
userdata_dirs(fs) ==
    LET bases == steam_base_dirs(fs) IN
    CollectDirs(fs, [i \in 1 .. Len(bases) |-> Join(bases[i], "userdata")], {}, <<>>)
\* lines 53-77
config_dirs(fs) ==
    IF ~fs.home THEN <<>> ELSE CollectDirs(fs, ConfigCandidates, {}, <<>>)

\* Home directories: every way the five locations are real Steam
\* directories, links to one another, or absent; the `config` and
\* `userdata` entries of the second Steam directory may be links into the
\* first.
NoHome ==
    [home |-> FALSE, base |-> [n \in BaseNames |-> Missing],
     config |-> [b \in RealBases |-> Missing], userdata |-> [b \in RealBases |-> Missing]]
Homes ==
    { [home |-> TRUE, base |-> b,
       config |-> [r \in RealBases |-> IF r = "S1" THEN c1 ELSE c2],
       userdata |-> [r \in RealBases |-> IF r = "S1" THEN u1 ELSE u2]] :
        b \in [BaseNames -> RealBases \cup {Missing}],
        c1 \in {Missing, "C1"}, c2 \in {Missing, "C1", "C2"},
        u1 \in {Missing, "U1"}, u2 \in {Missing, "U1", "U2"} }
    \cup {NoHome}

PathInitOver(homes) == hfs \in homes /\ dfn = "none" /\ ddirs = <<>>
PathIdle == PathInitOver({NoHome})

SteamBaseDirs ==
    /\ dfn' = "steam_base_dirs"
    /\ ddirs' = steam_base_dirs(hfs)
    /\ UNCHANGED hfs
    /\ PathFrame
UserdataDirs ==
    /\ dfn' = "userdata_dirs"
    /\ ddirs' = userdata_dirs(hfs)
    /\ UNCHANGED hfs
    /\ PathFrame
ConfigDirs ==
    /\ dfn' = "config_dirs"
    /\ ddirs' = config_dirs(hfs)
    /\ UNCHANGED hfs
    /\ PathFrame
PathNext == SteamBaseDirs \/ UserdataDirs \/ ConfigDirs

(***************************************************************************)
(* ------------------------- the identity resolver ----------------------- *)
(* utils/user_config.rs 76-196.  Parsed key-value text is what the         *)
(* keyvalues_parser crate hands back: a Vdf is a key and a value, a value  *)
(* is a string or an object, and an object maps each key to the sequence   *)
(* of the values given for it, iterated in the order of the keys (it is a  *)
(* BTreeMap).  Strings are sequences of characters.                        *)
(***************************************************************************)
None == [none |-> TRUE]
Some(x) == [some |-> x]
IsSome(opt) == "some" \in DOMAIN opt
Str(str) == [str |-> str]
Obj(map) == [obj |-> map]
EmptyMap == [k \in {} |-> <<>>]

\* Value::get_obj, Value::get_str, Obj::get, slice::first on an Option
GetObj(opt) == IF IsSome(opt) /\ "obj" \in DOMAIN opt.some THEN Some(opt.some.obj) ELSE None
GetStr(opt) == IF IsSome(opt) /\ "str" \in DOMAIN opt.some THEN Some(opt.some.str) ELSE None
ObjGet(opt, key) == IF IsSome(opt) /\ key \in DOMAIN opt.some THEN Some(opt.some[key]) ELSE None
First(opt) == IF IsSome(opt) /\ opt.some # <<>> THEN Some(opt.some[1]) ELSE None

\* The characters in use, in the order of their codes.
Ascii ==
    <<" ", "+", "-", "0", "1", "2", "3", "4", "5", "6", "7", "8", "9",
      "A", "B", "C", "D", "E", "F", "G", "H", "I", "J", "K", "L", "M",
      "N", "O", "P", "Q", "R", "S", "T", "U", "V", "W", "X", "Y", "Z", "_",
      "a", "b", "c", "d", "e", "f", "g", "h", "i", "j", "k", "l", "m",
      "n", "o", "p", "q", "r", "s", "t", "u", "v", "w", "x", "y", "z">>
Code(ch) == CHOOSE i \in 1 .. Len(Ascii) : Ascii[i] = ch
\* Ord for str: byte-wise, a proper prefix first
RECURSIVE StrLess(_, _)
StrLess(a, b) ==
    IF b = <<>> THEN FALSE
    ELSE IF a = <<>> THEN TRUE
    ELSE IF Head(a) # Head(b) THEN Code(Head(a)) < Code(Head(b))
    ELSE StrLess(Tail(a), Tail(b))
\* The keys of an object in the order Obj::iter yields them.
RECURSIVE SortedKeys(_)
SortedKeys(keys) ==
    IF keys = {} THEN <<>>
    ELSE LET least == CHOOSE k \in keys : \A other \in keys \ {k} : StrLess(k, other)
         IN <<least>> \o SortedKeys(keys \ {least})

\* u64 and u32 values are kept as 16-bit limbs, lowest first.
LimbBase == 65536
\* acc * 10 + digit in u64; <<>> on overflow
MulAdd(acc, digit) ==
    LET t1 == 10 * acc[1] + digit
        t2 == 10 * acc[2] + (t1 \div LimbBase)
        t3 == 10 * acc[3] + (t2 \div LimbBase)
        t4 == 10 * acc[4] + (t3 \div LimbBase)
    IN IF t4 \div LimbBase # 0 THEN <<>>
       ELSE <<t1 % LimbBase, t2 % LimbBase, t3 % LimbBase, t4 % LimbBase>>
RECURSIVE ParseU64Digits(_, _)
ParseU64Digits(str, acc) ==
    IF str = <<>> THEN Some(acc)
    ELSE IF ~IsDigit(Head(str)) THEN None
    ELSE LET next == MulAdd(acc, DigitVal(Head(str))) IN
         IF next = <<>> THEN None ELSE ParseU64Digits(Tail(str), next)
\* str::parse::<u64>(): an optional "+", then at least one digit
ParseU64(str) ==
    LET digits == IF str # <<>> /\ Head(str) = "+" THEN Tail(str) ELSE str IN
    IF digits = <<>> THEN None ELSE ParseU64Digits(digits, <<0, 0, 0, 0>>)
\* A mutation of Mask32: the low 16 bits.
Mask16(v) == <<v[1], 0>>
\* (v & 0xFFFFFFFF) as u32, line 81
Mask32(v) == <<v[1], v[2]>>
\* u32::to_string
RECURSIVE Limbs32ToString(_)
Limbs32ToString(v) ==
    LET t == (v[2] % 10) * LimbBase + v[1]
        quot == <<t \div 10, v[2] \div 10>>
        last == <<Digits[(t % 10) + 1]>>
    IN IF quot = <<0, 0>> THEN last ELSE Limbs32ToString(quot) \o last
\* lines 78-82
steamid_to_accountid(uid) ==
    LET v == ParseU64(uid) IN
    IF IsSome(v) THEN Some(Limbs32ToString(Mask32(v.some))) ELSE None

kUsers == <<"u", "s", "e", "r", "s">>
kMostRecent == <<"M", "o", "s", "t", "R", "e", "c", "e", "n", "t">>
kOther == <<"o", "t", "h", "e", "r">>
sOne == <<"1">>
sZero == <<"0">>

\* lines 93-101
UsersObj(vdf) ==
    IF vdf.key = kUsers THEN GetObj(Some(vdf.value))
    ELSE GetObj(First(ObjGet(GetObj(Some(vdf.value)), kUsers)))
\* A mutation of FirstFlagged: the first entry, flagged or not.
FirstListed(users, keys) ==
    IF keys = <<>> THEN None
    ELSE LET account == steamid_to_accountid(Head(keys)) IN
         Some(IF IsSome(account) THEN account.some ELSE Head(keys))
\* lines 103-117: the first entry, in key order, whose MostRecent is "1"
RECURSIVE FirstFlagged(_, _)
FirstFlagged(users, keys) ==
    IF keys = <<>> THEN None
    ELSE LET uid == Head(keys)
             user_obj == GetObj(First(Some(users[uid])))
             most == GetStr(First(ObjGet(user_obj, kMostRecent)))
         IN IF most = Some(sOne)
            THEN LET account == steamid_to_accountid(uid) IN
                 Some(IF IsSome(account) THEN account.some ELSE uid)
            ELSE FirstFlagged(users, Tail(keys))
\* One root of the loop of lines 85-121: what its loginusers.vdf yields.
RootYields(login) ==
    IF login.kind # "parsed" THEN None
    ELSE LET users_obj == UsersObj(login.vdf) IN
         IF IsSome(users_obj)
         THEN FirstFlagged(users_obj.some, SortedKeys(DOMAIN users_obj.some))
         ELSE None
\* lines 84-123
RECURSIVE MostRecentFrom(_, _)
MostRecentFrom(fs, i) ==
    IF i > Len(fs.login) THEN None
    ELSE LET found == RootYields(fs.login[i]) IN
         IF IsSome(found) THEN found ELSE MostRecentFrom(fs, i + 1)
most_recent_user_id(fs) == MostRecentFrom(fs, 1)

\* <userdata root i>/<name>/config/localconfig.vdf
LocalConfig(i, name) == [root |-> i, user |-> name]
\* The settings files below one userdata root (read_dir, then cfg.exists()).
SettingsIn(fs, i) ==
    { LocalConfig(i, name) : name \in { n \in DOMAIN fs.users[i] : fs.users[i][n] = "settings" } }
\* The orders in which read_dir may yield a set of entries.
Orders(set) ==
    { q \in UNION { [1 .. n -> set] : n \in {Cardinality(set)} } :
        \A i, j \in DOMAIN q : i # j => q[i] # q[j] }
\* What one round of the loop of lines 128-154 may push.
PushedFor(fs, i, recent) ==
    IF IsSome(recent) /\ recent.some \in DOMAIN fs.users[i]
       /\ fs.users[i][recent.some] = "settings"
    THEN { <<LocalConfig(i, recent.some)>> }
    ELSE Orders(SettingsIn(fs, i))
\* lines 125-156: the vectors find_localconfig_files may return
RECURSIVE FilesFrom(_, _, _)
FilesFrom(fs, i, recent) ==
    IF i > Len(fs.users) THEN { <<>> }
    ELSE { here \o rest : here \in PushedFor(fs, i, recent), rest \in FilesFrom(fs, i + 1, recent) }
find_localconfig_files(fs) == FilesFrom(fs, 1, most_recent_user_id(fs))

\* lines 161-166: the first userdata root holding a directory named uid
RECURSIVE FirstUserDir(_, _, _)
FirstUserDir(fs, i, uid) ==
    IF i > Len(fs.users) THEN None
    ELSE IF uid \in DOMAIN fs.users[i] THEN Some(LocalConfig(i, uid))
    ELSE FirstUserDir(fs, i + 1, uid)
AllSettings(fs) == UNION { SettingsIn(fs, i) : i \in 1 .. Len(fs.users) }
\* A mutation of OnlySettings: one of the settings files when there are several.
AnySettings(fs) ==
    IF AllSettings(fs) # {} THEN Some(CHOOSE f \in AllSettings(fs) : TRUE) ELSE None
\* lines 171-185: the only settings file there is, None if there are several
OnlySettings(fs) ==
    IF Cardinality(AllSettings(fs)) = 1 THEN Some(CHOOSE f \in AllSettings(fs) : TRUE) ELSE None
\* lines 159-186; `?` at line 160 returns None when there is no recent user
default_localconfig_path(fs) ==
    LET uid == most_recent_user_id(fs) IN
    IF ~IsSome(uid) THEN None
    ELSE LET direct == FirstUserDir(fs, 1, uid.some) IN
         IF IsSome(direct) THEN direct ELSE OnlySettings(fs)
\* lines 194-196
expected_localconfig_path(fs) == default_localconfig_path(fs)

\* Identifiers of the login histories and names of the user directories.
uidNarrow == <<"5">>
uidWide == <<"7", "6", "5", "6", "1", "1", "9", "8", "0", "0", "1", "4", "8", "1", "8", "4", "2">>
accountOfWide == <<"4", "1", "2", "1", "6", "1", "1", "4">>
\* What an entry of the users object may be.
Flagged == Obj([k \in {kMostRecent} |-> <<Str(sOne)>>])
Unflagged == Obj([k \in {kMostRecent} |-> <<Str(sZero)>>])
UsersMaps(entries) ==
    UNION { [ids -> { <<e>> : e \in entries }] : ids \in SUBSET {uidNarrow, uidWide} }
\* loginusers.vdf of one config root
NoLoginFile == [kind |-> "absent", vdf |-> None]
Parsed(vdf) == [kind |-> "parsed", vdf |-> vdf]
LoginFiles ==
    { NoLoginFile, [kind |-> "unreadable", vdf |-> None], [kind |-> "unparsable", vdf |-> None] }
    \cup { Parsed([key |-> kUsers, value |-> Obj(m)]) : m \in UsersMaps({Flagged, Unflagged, Obj(EmptyMap)}) }
\* ... written below another top-level key, or with a string for the users
WrappedLoginFiles ==
    { Parsed([key |-> kOther, value |-> Obj([k \in {kUsers} |-> <<Obj(m)>>])]) :
        m \in UsersMaps({Flagged, Unflagged}) }
    \cup { Parsed([key |-> kUsers, value |-> Str(sOne)]) }
\* loginusers.vdf of a later config root
LaterLoginFiles ==
    { NoLoginFile, [kind |-> "unparsable", vdf |-> None] }
    \cup { Parsed([key |-> kUsers, value |-> Obj(m)]) : m \in UsersMaps({Flagged, Unflagged}) }
\* One userdata root: the user directories in it, with or without a
\* config/localconfig.vdf.
UserdataRoots ==
    UNION { [names -> {"dir", "settings"}] : names \in SUBSET {uidNarrow, accountOfWide} }
LaterUserdataRoots ==
    UNION { [names -> {"settings"}] : names \in SUBSET {uidNarrow, accountOfWide} }
IdWorlds ==
    { [login |-> l, users |-> u] :
        l \in { <<>> } \cup { <<a>> : a \in LoginFiles \cup WrappedLoginFiles }
              \cup { <<a, b>> : a \in LoginFiles, b \in LaterLoginFiles },
        u \in { <<>> } \cup { <<a>> : a \in UserdataRoots }
              \cup { <<a, b>> : a \in UserdataRoots, b \in LaterUserdataRoots } }

\* Identifiers handed to steamid_to_accountid, each with the decimal text
\* of its value modulo 2^32 (None where it is not the text of a u64).
NarrowTable ==
    { <<<<"7", "6", "5", "6", "1", "1", "9", "8", "0", "0", "1", "4", "8", "1", "8", "4", "2">>, Some(<<"4", "1", "2", "1", "6", "1", "1", "4">>)>>,
      <<<<"4", "1", "2", "1", "6", "1", "1", "4">>, Some(<<"4", "1", "2", "1", "6", "1", "1", "4">>)>>,
      <<<<"4", "2", "9", "4", "9", "6", "7", "2", "9", "5">>, Some(<<"4", "2", "9", "4", "9", "6", "7", "2", "9", "5">>)>>,
      <<<<"4", "2", "9", "4", "9", "6", "7", "2", "9", "6">>, Some(<<"0">>)>>,
      <<<<"4", "2", "9", "4", "9", "6", "7", "2", "9", "7">>, Some(<<"1">>)>>,
      <<<<"1", "8", "4", "4", "6", "7", "4", "4", "0", "7", "3", "7", "0", "9", "5", "5", "1", "6", "1", "5">>, Some(<<"4", "2", "9", "4", "9", "6", "7", "2", "9", "5">>)>>,
      <<<<"8", "5", "8", "9", "9", "3", "4", "5", "9", "2">>, Some(<<"0">>)>>,
      <<<<"7", "6", "5", "6", "1", "1", "9", "7", "9", "6", "0", "2", "6", "5", "7", "2", "8">>, Some(<<"0">>)>>,
      <<<<"7", "6", "5", "6", "1", "1", "9", "7", "9", "6", "0", "2", "6", "5", "7", "3", "3">>, Some(<<"5">>)>>,
      <<<<"3", "0", "3", "7", "0", "1", "9", "0", "9", "6", "8">>, Some(<<"3", "0", "5", "4", "1", "9", "8", "9", "6">>)>>,
      <<<<"7">>, Some(<<"7">>)>>,
      <<<<"0">>, Some(<<"0">>)>>,
      <<<<"0", "0", "7">>, Some(<<"7">>)>>,
      <<<<"+", "5">>, Some(<<"5">>)>>,
      <<<<"1", "8", "4", "4", "6", "7", "4", "4", "0", "7", "3", "7", "0", "9", "5", "5", "1", "6", "1", "6">>, None>>,
      <<<<"u", "s", "e", "r">>, None>>,
      <<<<"-", "5">>, None>>,
      <<<<"+">>, None>>,
      <<<<"4", " ", "2">>, None>> }
NarrowInputs == { row[1] : row \in NarrowTable }
Narrowed(uid) == (CHOOSE row \in NarrowTable : row[1] = uid)[2]
\* A login history with one flagged identity, and a userdata root holding a
\* directory for the identifier as written, for its account, for both or
\* for neither.
NarrowWorldsOf(uid) ==
    { [login |-> << [kind |-> "parsed",
                     vdf |-> [key |-> kUsers, value |-> Obj([k \in {uid} |-> <<Flagged>>])]] >>,
       users |-> << [n \in names |-> "settings"] >>] :
        names \in SUBSET ({uid} \cup (IF IsSome(Narrowed(uid)) THEN {Narrowed(uid).some} ELSE {})) }
NarrowWorlds == UNION { NarrowWorldsOf(uid) : uid \in NarrowInputs }

IdInitOver(worlds) == ifs \in worlds /\ iop = "none" /\ iarg = <<>> /\ iret = None
IdIdle == IdInitOver({[login |-> <<>>, users |-> <<>>]})

\* The identifiers written in the login histories.
Written(fs) ==
    UNION { IF IsSome(UsersObj(fs.login[i].vdf)) THEN DOMAIN UsersObj(fs.login[i].vdf).some ELSE {} :
              i \in { j \in 1 .. Len(fs.login) : fs.login[j].kind = "parsed" } }

SteamidToAccountid ==
    /\ \E uid \in Written(ifs) :
          /\ iarg' = uid
          /\ iret' = steamid_to_accountid(uid)
    /\ iop' = "steamid_to_accountid"
    /\ UNCHANGED ifs
    /\ IdFrame
MostRecentUserId ==
    /\ iop' = "most_recent_user_id"
    /\ iret' = most_recent_user_id(ifs)
    /\ iarg' = <<>>
    /\ UNCHANGED ifs
    /\ IdFrame
FindLocalconfigFiles ==
    /\ iop' = "find_localconfig_files"
    /\ \E files \in find_localconfig_files(ifs) : iret' = Some(files)
    /\ iarg' = <<>>
    /\ UNCHANGED ifs
    /\ IdFrame
ExpectedLocalconfigPath ==
    /\ iop' = "expected_localconfig_path"
    /\ iret' = expected_localconfig_path(ifs)
    /\ iarg' = <<>>
    /\ UNCHANGED ifs
    /\ IdFrame
IdNext == SteamidToAccountid \/ MostRecentUserId \/ FindLocalconfigFiles \/ ExpectedLocalconfigPath

(***************************************************************************)
(* --------------------------- the key-value codec ----------------------- *)
(* utils/manifest.rs and utils/user_config.rs 198-503 over the             *)
(* keyvalues_parser crate.  A text is the sequence of its tokens: strings  *)
(* (with what stands between the quotes), braces and comments; the white   *)
(* space between tokens is left out, as parsing ignores it and rendering   *)
(* writes it as a function of the tokens alone.  Vdf::parse reads one key  *)
(* and its value and fails on anything else; an object keeps, per key, the *)
(* values in the order read, and the keys in their own order; rendering    *)
(* (Display) writes the keys in that order, every string quoted and        *)
(* escaped.                                                                *)
(***************************************************************************)
\* Largest number of times a set function is applied to one text.
MaxSets == 2

Quoted(raw) == [t |-> "str", raw |-> raw]
OpenBrace == [t |-> "{", raw |-> <<>>]
CloseBrace == [t |-> "}", raw |-> <<>>]
Comment == [t |-> "//", raw |-> <<>>]

\* Escaping of the rendered strings and its reverse in the parser.
RECURSIVE Escape(_)
Escape(str) ==
    IF str = <<>> THEN <<>>
    ELSE (CASE Head(str) = "\"" -> <<"\\", "\"">>
            [] Head(str) = "\\" -> <<"\\", "\\">>
            [] Head(str) = "\n" -> <<"\\", "n">>
            [] OTHER -> <<Head(str)>>) \o Escape(Tail(str))
RECURSIVE Unescape(_)
Unescape(raw) ==
    IF raw = <<>> THEN <<>>
    ELSE IF Head(raw) = "\\" /\ Len(raw) >= 2
         THEN <<IF raw[2] = "n" THEN "\n" ELSE raw[2]>> \o Unescape(SubSeq(raw, 3, Len(raw)))
         ELSE <<Head(raw)>> \o Unescape(Tail(raw))
\* A backslash is followed by one of the escaped characters.
RECURSIVE ValidRaw(_)
ValidRaw(raw) ==
    IF raw = <<>> THEN TRUE
    ELSE IF Head(raw) = "\\"
         THEN Len(raw) >= 2 /\ raw[2] \in {"\"", "\\", "n"} /\ ValidRaw(SubSeq(raw, 3, Len(raw)))
         ELSE ValidRaw(Tail(raw))

IsObj(value) == "obj" \in DOMAIN value
IsStr(value) == "str" \in DOMAIN value
\* One more value for a key of an object being read.
AddValue(map, key, value) ==
    [k \in DOMAIN map \cup {key} |->
        IF k = key THEN (IF key \in DOMAIN map THEN Append(map[key], value) ELSE <<value>>)
        ELSE map[k]]
ParseFailed == [ok |-> FALSE, value |-> Str(<<>>), map |-> EmptyMap, rest |-> <<>>]

\* The one element of a singleton; { F(x) : x \in {e} } computes e once.
Only(set) == CHOOSE x \in set : TRUE

\* The grammar: value = string | "{" pair* "}", pair = string value.
RECURSIVE ParsePairs(_, _)
RECURSIVE ParseValue(_)
ParseValue(tokens) ==
    IF tokens = <<>> THEN ParseFailed
    ELSE IF Head(tokens).t = "str"
    THEN IF ValidRaw(Head(tokens).raw)
         THEN [ParseFailed EXCEPT !.ok = TRUE, !.value = Str(Unescape(Head(tokens).raw)),
                                  !.rest = Tail(tokens)]
         ELSE ParseFailed
    ELSE IF Head(tokens).t = "{"
    THEN Only({ IF body.ok /\ body.rest # <<>> /\ Head(body.rest).t = "}"
                THEN [ParseFailed EXCEPT !.ok = TRUE, !.value = Obj(body.map),
                                         !.rest = Tail(body.rest)]
                ELSE ParseFailed :
                body \in {ParsePairs(Tail(tokens), EmptyMap)} })
    ELSE ParseFailed
ParsePairs(tokens, map) ==
    IF tokens = <<>> \/ Head(tokens).t # "str"
    THEN [ParseFailed EXCEPT !.ok = TRUE, !.map = map, !.rest = tokens]
    ELSE IF ~ValidRaw(Head(tokens).raw) THEN ParseFailed
    ELSE Only({ IF ~value.ok THEN ParseFailed
                ELSE ParsePairs(value.rest, AddValue(map, Unescape(Head(tokens).raw), value.value)) :
                value \in {ParseValue(Tail(tokens))} })

\* Vdf::parse(contents): Some([key, value]) or None for Err
VdfParse(contents) ==
    Only({ IF tokens = <<>> \/ Head(tokens).t # "str" \/ ~ValidRaw(Head(tokens).raw) THEN None
           ELSE Only({ IF value.ok /\ value.rest = <<>>
                       THEN Some([key |-> Unescape(Head(tokens).raw), value |-> value.value])
                       ELSE None :
                       value \in {ParseValue(Tail(tokens))} }) :
           tokens \in {SelectSeq(contents, LAMBDA tok : tok.t # "//")} })

\* format!("{}", vdf)
RECURSIVE RenderValue(_)
RECURSIVE RenderValues(_, _)
RECURSIVE RenderKeys(_, _)
RenderValue(value) ==
    IF IsStr(value) THEN <<Quoted(Escape(value.str))>>
    ELSE <<OpenBrace>> \o RenderKeys(value.obj, SortedKeys(DOMAIN value.obj)) \o <<CloseBrace>>
RenderValues(key, values) ==
    IF values = <<>> THEN <<>>
    ELSE <<Quoted(Escape(key))>> \o RenderValue(Head(values)) \o RenderValues(key, Tail(values))
RenderKeys(map, keys) ==
    IF keys = <<>> THEN <<>>
    ELSE RenderValues(Head(keys), map[Head(keys)]) \o RenderKeys(map, Tail(keys))
Render(vdf) == <<Quoted(Escape(vdf.key))>> \o RenderValue(vdf.value)

\* A mutation of SetFirstStr: the value is added to those of the key.
PushStr(obj, key, value) == AddValue(obj, key, Str(value))
\* manifest.rs 11-20 (user_config.rs 293-302, 491-500): the first value of
\* the key is overwritten if it is a string and left alone if it is an
\* object; a key without values is given the value.
SetFirstStr(obj, key, value) ==
    IF key \in DOMAIN obj /\ obj[key] # <<>>
    THEN IF IsStr(obj[key][1]) THEN [obj EXCEPT ![key][1] = Str(value)] ELSE obj
    ELSE [k \in DOMAIN obj \cup {key} |-> IF k = key THEN <<Str(value)>> ELSE obj[k]]

\* manifest.rs 8-25
update_or_insert(contents, key, value) ==
    Only({ IF IsSome(vdf) /\ IsObj(vdf.some.value)
           THEN Render([key |-> vdf.some.key,
                        value |-> Obj(SetFirstStr(vdf.some.value.obj, key, value))])
           ELSE contents :
           vdf \in {VdfParse(contents)} })
\* manifest.rs 28-35
get_value(contents, key) ==
    Only({ IF ~IsSome(vdf) THEN None
           ELSE GetStr(First(ObjGet(GetObj(Some(vdf.some.value)), key))) :
           vdf \in {VdfParse(contents)} })

kStore == <<"U", "s", "e", "r", "L", "o", "c", "a", "l", "C", "o", "n", "f", "i", "g", "S", "t", "o", "r", "e">>
kSoftware == <<"S", "o", "f", "t", "w", "a", "r", "e">>
kValve == <<"V", "a", "l", "v", "e">>
kSteam == <<"S", "t", "e", "a", "m">>
kApps == <<"a", "p", "p", "s">>
kOverrides == <<"C", "o", "m", "p", "a", "t", "T", "o", "o", "l", "O", "v", "e", "r", "r", "i", "d", "e", "s">>
kLaunchOptions == <<"L", "a", "u", "n", "c", "h", "O", "p", "t", "i", "o", "n", "s">>
kName == <<"n", "a", "m", "e">>
kConfig == <<"c", "o", "n", "f", "i", "g">>
kPriority == <<"p", "r", "i", "o", "r", "i", "t", "y">>

Panic == [panic |-> TRUE]
Panicked == [ok |-> FALSE, map |-> EmptyMap]
Walked(map) == [ok |-> TRUE, map |-> map]

\* user_config.rs 286-307: the app's object once the tool is written
WithTool(app_obj, tool) ==
    LET named == SetFirstStr(app_obj, kName, tool)
        configured == IF kConfig \in DOMAIN named THEN named ELSE AddValue(named, kConfig, Str(<<>>))
    IN IF kPriority \in DOMAIN configured THEN configured
       ELSE AddValue(configured, kPriority, Str(<<"0">>))
\* What is done to the object the walk ends in.
AtLeaf(obj, leaf) ==
    CASE leaf.kind = "launch" -> SetFirstStr(obj, kLaunchOptions, leaf.value)
      [] leaf.kind = "tool" -> WithTool(obj, leaf.value)
      [] leaf.kind = "remove" -> [k \in DOMAIN obj \ {leaf.value} |-> obj[k]]
\* user_config.rs 476-489 (278-290): obj.entry(key).or_insert_with(|| vec![Obj])
\* .first_mut().and_then(get_mut_obj).unwrap(), key after key
RECURSIVE WalkOrCreate(_, _, _)
WalkOrCreate(obj, keys, leaf) ==
    IF keys = <<>> THEN Walked(AtLeaf(obj, leaf))
    ELSE LET key == Head(keys)
             entry == IF key \in DOMAIN obj THEN obj[key] ELSE <<Obj(EmptyMap)>>
         IN IF entry = <<>> \/ ~IsObj(entry[1]) THEN Panicked
            ELSE Only({ IF ~inner.ok THEN Panicked
                        ELSE Walked([k \in DOMAIN obj \cup {key} |->
                                        IF k = key THEN <<Obj(inner.map)>> \o Tail(entry)
                                        ELSE obj[k]]) :
                        inner \in {WalkOrCreate(entry[1].obj, Tail(keys), leaf)} })
\* user_config.rs 452-503 (254-312) around the walk: parse or start anew,
\* take the object below UserLocalConfigStore if there is one, render
ParseOrNew(contents) ==
    Only({ IF IsSome(parsed) THEN parsed.some ELSE [key |-> kStore, value |-> Obj(EmptyMap)] :
           parsed \in {VdfParse(contents)} })
UpdateRoot(vdf, root, keys, leaf) ==
    LET wrapped == IsSome(GetObj(First(ObjGet(Some(root), kStore)))) IN
    Only({ IF ~walked.ok THEN Panic
           ELSE Some(Render([key |-> vdf.key,
                             value |-> Obj(IF wrapped THEN [root EXCEPT ![kStore][1] = Obj(walked.map)]
                                           ELSE walked.map)])) :
           walked \in {WalkOrCreate(IF wrapped THEN root[kStore][1].obj ELSE root, keys, leaf)} })
UpdateAt(contents, keys, leaf) ==
    Only({ UpdateRoot(vdf, IF IsObj(vdf.value) THEN vdf.value.obj ELSE EmptyMap, keys, leaf) :
           vdf \in {ParseOrNew(contents)} })
\* user_config.rs 450-503
update_launch_options(contents, app_id, value) ==
    UpdateAt(contents, <<kSoftware, kValve, kSteam, kApps, U32ToString(app_id)>>,
             [kind |-> "launch", value |-> value])
\* user_config.rs 252-312; `value` is Some(tool) or None
update_compat_tool(contents, app_id, value) ==
    IF IsSome(value)
    THEN UpdateAt(contents, <<kSoftware, kValve, kSteam, kOverrides, U32ToString(app_id)>>,
                  [kind |-> "tool", value |-> value.some])
    ELSE UpdateAt(contents, <<kSoftware, kValve, kSteam, kOverrides>>,
                  [kind |-> "remove", value |-> U32ToString(app_id)])

\* The chain of .get(key)?.first()?.get_obj()? of the readers
RECURSIVE Descend(_, _)
Descend(obj, keys) ==
    IF keys = <<>> \/ ~IsSome(obj) THEN obj
    ELSE Descend(GetObj(First(ObjGet(obj, Head(keys)))), Tail(keys))
\* user_config.rs 399-431 (201-234) around the chain
ReadAt(contents, keys, leafKey) ==
    Only({ LET outer == IF IsSome(vdf) THEN GetObj(Some(vdf.some.value)) ELSE None
               inner == GetObj(First(ObjGet(outer, kStore)))
               root == IF IsSome(inner) THEN inner ELSE outer
           IN GetStr(First(ObjGet(Descend(root, keys), leafKey))) :
           vdf \in {VdfParse(contents)} })
\* user_config.rs 398-431
parse_launch_options(contents, app_id) ==
    ReadAt(contents, <<kSoftware, kValve, kSteam, kApps, U32ToString(app_id)>>, kLaunchOptions)
\* user_config.rs 200-234
parse_compat_tool(contents, app_id) ==
    ReadAt(contents, <<kSoftware, kValve, kSteam, kOverrides, U32ToString(app_id)>>, kName)

\* Texts are written with these.
Pair(key, value) == <<Quoted(key), Quoted(value)>>
Block(key, body) == <<Quoted(key), OpenBrace>> \o body \o <<CloseBrace>>
RECURSIVE Nest(_, _)
Nest(keys, body) == IF keys = <<>> THEN body ELSE Block(Head(keys), Nest(Tail(keys), body))
RECURSIVE Concat(_)
Concat(seqs) == IF seqs = <<>> THEN <<>> ELSE Head(seqs) \o Concat(Tail(seqs))

kAppState == <<"A", "p", "p", "S", "t", "a", "t", "e">>
kAppid == <<"a", "p", "p", "i", "d">>
sOld == <<"o", "l", "d">>
\* The values written: an option, one with a quote in it, the empty string.
KvValues == { <<"-", "n", "o", "v", "i", "d">>, <<"a", "\"", "b">>, <<>> }
KvAppIds == {123}
\* Entries of an app manifest: strings, one written with an escape, and an
\* object under the key of a setting.
ManifestEntries ==
    { Pair(kName, <<"X">>), Pair(kAppid, <<"1">>), Pair(kLaunchOptions, sOld),
      Pair(kLaunchOptions, <<"\\", "\"", "q">>), Block(kLaunchOptions, <<>>) }
\* App manifests of up to three entries in any order
WellFormedManifests ==
    { Block(kAppState, Concat(es)) :
        es \in UNION { [1 .. n -> ManifestEntries] : n \in 0 .. 3 } }
\* ... with a comment, or with the one value at top level
OddManifests ==
    { <<Quoted(kAppState), OpenBrace, Comment>> \o Pair(kName, <<"X">>) \o <<CloseBrace>>,
      Pair(kAppState, sOld) }
\* Empty, partial and otherwise malformed texts
MalformedTexts ==
    { <<>>, <<Quoted(kAppState)>>, <<Quoted(kAppState), OpenBrace>> \o Pair(kName, <<"X">>),
      <<OpenBrace, CloseBrace>>, Block(kAppState, <<>>) \o <<CloseBrace>>,
      Block(kAppState, <<Quoted(kName)>>), <<Comment>>,
      Block(kAppState, Pair(kName, <<"\\", "x">>)) }

\* What may stand where the settings of the app are looked for.
AppBodies(leafKey) ==
    { Pair(leafKey, sOld), <<>>, Pair(kAppid, <<"1">>) \o Pair(leafKey, sOld),
      Pair(leafKey, sOld) \o Pair(leafKey, <<"2">>), Block(leafKey, <<>>) }
\* Settings files: the path to the app written out, with or without an
\* outer key around UserLocalConfigStore, with another app beside it, cut
\* short at some level, or with a string where an object is expected.
ConfigTexts(container, leafKey) ==
    { Nest(<<kStore, kSoftware, kValve, kSteam, container, <<"1", "2", "3">>>>, body) :
        body \in AppBodies(leafKey) }
    \cup { Nest(<<kOther, kStore, kSoftware, kValve, kSteam, container, <<"1", "2", "3">>>>, body) :
        body \in AppBodies(leafKey) }
    \cup { Nest(<<kStore, kSoftware, kValve, kSteam, container>>,
                Block(<<"7">>, Pair(leafKey, sOld)) \o Block(<<"1", "2", "3">>, body)) :
        body \in AppBodies(leafKey) }
    \cup { Nest(SubSeq(<<kStore, kSoftware, kValve, kSteam, container>>, 1, n), <<>>) : n \in 1 .. 5 }
    \cup { Nest(<<kOther, kStore>>, <<>>), Block(kOther, Pair(kStore, sOld)), Pair(kStore, sOld),
           Block(kStore, Pair(kSoftware, sOld)),
           Nest(<<kStore, kSoftware, kValve, kSteam>>, Pair(container, sOld)),
           Nest(<<kStore, kSoftware, kValve, kSteam, container>>, Pair(<<"1", "2", "3">>, sOld)) }
KvTexts(fam) ==
    CASE fam = "manifest" -> WellFormedManifests \cup OddManifests \cup MalformedTexts
      [] fam = "launch" -> ConfigTexts(kApps, kLaunchOptions) \cup MalformedTexts
      [] fam = "compat" -> ConfigTexts(kOverrides, kName) \cup MalformedTexts
KvKeys(fam) ==
    IF fam = "manifest" THEN {kLaunchOptions} ELSE { U32ToString(id) : id \in KvAppIds }

KvInitOver(fams) ==
    /\ kfam \in fams
    /\ korig \in KvTexts(kfam)
    /\ kdoc = korig
    /\ kprev = korig
    /\ kkey \in KvKeys(kfam)
    /\ kval \in KvValues
    /\ ksets = 0
    /\ kget = None
    /\ kop = "none"
    /\ kwritten = FALSE
KvIdle ==
    /\ kfam = "manifest"
    /\ korig = <<>>
    /\ kdoc = <<>>
    /\ kprev = <<>>
    /\ kkey = kLaunchOptions
    /\ kval = <<>>
    /\ ksets = 0
    /\ kget = None
    /\ kop = "none"
    /\ kwritten = FALSE

\* A set function returned `text`.
SetReturned(text) ==
    /\ kprev' = kdoc
    /\ kdoc' = text
    /\ ksets' = ksets + 1
    /\ kop' = "set"
    /\ kwritten' = TRUE
    /\ UNCHANGED <<kfam, korig, kkey, kval, kget>>
\* A set function panicked: nothing is written.
SetPanicked ==
    /\ kop' = "panic"
    /\ UNCHANGED <<kfam, korig, kdoc, kprev, kkey, kval, ksets, kget, kwritten>>
\* A get function returned `value`.
GetReturned(value) ==
    /\ kget' = value
    /\ kop' = "get"
    /\ UNCHANGED <<kfam, korig, kdoc, kprev, kkey, kval, ksets, kwritten>>

UpdateOrInsert ==
    /\ kfam = "manifest"
    /\ ksets < MaxSets
    /\ SetReturned(update_or_insert(kdoc, kkey, kval))
    /\ KvFrame
GetValue ==
    /\ kfam = "manifest"
    /\ GetReturned(get_value(kdoc, kkey))
    /\ KvFrame
UpdateLaunchOptions ==
    /\ kfam = "launch"
    /\ ksets < MaxSets
    /\ \E id \in KvAppIds :
          /\ kkey = U32ToString(id)
          /\ \E updated \in {update_launch_options(kdoc, id, kval)} :
                IF IsSome(updated) THEN SetReturned(updated.some) ELSE SetPanicked
    /\ KvFrame
ParseLaunchOptions ==
    /\ kfam = "launch"
    /\ \E id \in KvAppIds : kkey = U32ToString(id) /\ GetReturned(parse_launch_options(kdoc, id))
    /\ KvFrame
UpdateCompatTool ==
    /\ kfam = "compat"
    /\ ksets < MaxSets
    /\ \E id \in KvAppIds :
          /\ kkey = U32ToString(id)
          /\ \E updated \in {update_compat_tool(kdoc, id, Some(kval))} :
                IF IsSome(updated) THEN SetReturned(updated.some) ELSE SetPanicked
    /\ KvFrame
ParseCompatTool ==
    /\ kfam = "compat"
    /\ \E id \in KvAppIds : kkey = U32ToString(id) /\ GetReturned(parse_compat_tool(kdoc, id))
    /\ KvFrame
KvNext ==
    \/ UpdateOrInsert \/ GetValue
    \/ UpdateLaunchOptions \/ ParseLaunchOptions
    \/ UpdateCompatTool \/ ParseCompatTool

(***************************************************************************)
(* ------------------------- the library registry ------------------------ *)
(* core/steam.rs 64-102 (get_steam_libraries once the cache of lines 55-62 *)
(* has nothing fresh), utils/library.rs 74-104, core/models.rs 83-95.      *)
(* libraryfolders.vdf is a key-value text as the codec reads it.  A listed *)
(* path is a directory, a file or missing; it may change while the loop of *)
(* lines 85-89 runs.  Paths are valid UTF-8, so `to_str` of line 77 yields *)
(* the path.                                                               *)
(***************************************************************************)
MaxFolders == 11

kLibraryFolders == <<"l", "i", "b", "r", "a", "r", "y", "f", "o", "l", "d", "e", "r", "s">>
kPath == <<"p", "a", "t", "h">>
pathA == <<"/", "a">>
pathB == <<"/", "b">>
pathNowhere == <<"/", "n">>
LibPaths == {pathA, pathB}
PathKinds == {"dir", "file", "missing"}
\* What a path is on the file system.
KindOf(fs, path) == IF path \in LibPaths THEN fs.kind[path] ELSE "missing"

AbsentFile == [state |-> "absent", text |-> <<>>]
\* The file is there and read_to_string fails (a directory, bytes that are
\* not UTF-8, no permission).
UnreadableFile == [state |-> "unreadable", text |-> <<>>]
TextFile(text) == [state |-> "text", text |-> text]

\* library.rs 89-92: the `path` string of the first value of a folder key
FolderPath(vals) == GetStr(First(ObjGet(GetObj(First(Some(vals))), kPath)))
\* library.rs 88-101: for (_k, vals) in folders.iter() { ... if pb.exists() { push } }
RECURSIVE PushExisting(_, _, _)
PushExisting(fs, folders, keys) ==
    IF keys = <<>> THEN <<>>
    ELSE Only({ IF IsSome(path) /\ KindOf(fs, path.some) # "missing" THEN <<path.some>> ELSE <<>> :
                path \in {FolderPath(folders[Head(keys)])} })
         \o PushExisting(fs, folders, Tail(keys))
\* library.rs 78-86
FoldersObj(vdf) ==
    IF vdf.key = kLibraryFolders THEN GetObj(Some(vdf.value))
    ELSE GetObj(First(ObjGet(GetObj(Some(vdf.value)), kLibraryFolders)))
\* library.rs 74-104, the file being that of config root `root`
parse_libraryfolders_vdf(fs, root) ==
    IF fs.file[root].state # "text" THEN None
    ELSE Only({ IF ~IsSome(vdf) THEN None
                ELSE Only({ IF IsSome(folders)
                            THEN Some(PushExisting(fs, folders.some, SortedKeys(DOMAIN folders.some)))
                            ELSE Some(<<>>) :
                            folders \in {FoldersObj(vdf.some)} }) :
                vdf \in {VdfParse(fs.file[root].text)} })

\* A mutation of SteamLibraryNew: whatever exists is taken for a library.
SteamLibraryNewUnchecked(fs, path) ==
    IF KindOf(fs, path) = "missing"
    THEN Err([variant |-> "LibraryNotFound", detail |-> path])
    ELSE Ok
\* models.rs 85-95
SteamLibraryNew(fs, path) ==
    IF KindOf(fs, path) = "missing"
    THEN Err([variant |-> "LibraryNotFound", detail |-> path])
    ELSE IF KindOf(fs, path) # "dir"
    THEN Err([variant |-> "FileSystemError", detail |-> path])
    ELSE Ok

\* steam.rs 65-72: the first of config_dirs() whose libraryfolders.vdf exists
RECURSIVE FirstWithVdf(_, _)
FirstWithVdf(fs, dirs) ==
    IF dirs = <<>> THEN None
    ELSE IF fs.file[Head(dirs)[1]].state # "absent" THEN Some(Head(dirs)[1])
    ELSE FirstWithVdf(fs, Tail(dirs))

SteamConfigNotFound == [variant |-> "SteamConfigNotFound", detail |-> <<"libraryfolders.vdf">>]
ParseError == [variant |-> "Parse", detail |-> <<"Failed", "to", "parse", "libraryfolders.vdf">>]
SteamNotFound == [variant |-> "SteamNotFound", detail |-> <<>>]
NotReturned == [kind |-> "none", err |-> NoError, libraries |-> <<>>]
LibErr(e) == [kind |-> "err", err |-> e, libraries |-> <<>>]
LibOk(libraries) == [kind |-> "ok", err |-> NoError, libraries |-> libraries]

\* One folder entry, and the texts of libraryfolders.vdf.
Folder(key, path) == Block(key, Pair(kPath, path))
ManyFolders ==
    Concat([i \in 1 .. MaxFolders |->
              Folder(U32ToString(i - 1), IF i = MaxFolders THEN pathB ELSE pathA)])
LibTexts ==
    { Block(kLibraryFolders, Folder(<<"0">>, pathA) \o Folder(<<"1">>, pathB)),
      Block(kLibraryFolders, Folder(<<"1">>, pathB) \o Folder(<<"0">>, pathA)),
      Block(kLibraryFolders, Folder(<<"2">>, pathA) \o Folder(<<"1", "0">>, pathB)),
      Block(kLibraryFolders, Folder(<<"m", "a", "i", "n">>, pathA)
                                 \o Folder(<<"g", "a", "m", "e", "s">>, pathB)),
      Block(kLibraryFolders, ManyFolders),
      Block(<<"r", "o", "o", "t">>,
            Block(kLibraryFolders, Folder(<<"0">>, pathA) \o Folder(<<"1">>, pathB))),
      <<Comment>> \o Block(kLibraryFolders, Folder(<<"0">>, pathB)),
      Block(kLibraryFolders, <<>>),
      Block(kLibraryFolders,
            Pair(<<"c", "o", "n", "t", "e", "n", "t", "s", "t", "a", "t", "s", "i", "d">>, <<"5">>)
                \o Block(<<"0">>, Pair(<<"l", "a", "b", "e", "l">>, <<>>) \o Pair(kPath, pathA))
                \o Block(<<"1">>, <<>>)
                \o Block(<<"2">>, Block(kPath, <<>>))
                \o Folder(<<"3">>, pathNowhere)),
      Block(<<"o", "t", "h", "e", "r">>, <<>>),
      Pair(kLibraryFolders, pathA) }
LibFiles == {AbsentFile, UnreadableFile} \cup { TextFile(text) : text \in LibTexts \cup MalformedTexts }
LaterLibFiles ==
    { AbsentFile, TextFile(Block(kLibraryFolders, Folder(<<"0">>, pathB))),
      TextFile(<<Quoted(kLibraryFolders), OpenBrace>>) }

\* Home directories whose config roots are none, one, or two in either order.
LibHomes ==
    { [NoHome EXCEPT !.home = TRUE,
                     !.base = [n \in BaseNames |->
                                  IF n = ".steam/steam" THEN a
                                  ELSE IF n = ".local/share/Steam" THEN b ELSE Missing],
                     !.config = [r \in RealBases |-> IF r = "S1" THEN "C1" ELSE c2]] :
        a \in RealBases \cup {Missing}, b \in RealBases \cup {Missing}, c2 \in {"C2", Missing} }
    \cup {NoHome}
LibWorlds ==
    { [home |-> h, file |-> [r \in RealConfigs |-> IF r = "C1" THEN f1 ELSE f2], kind |-> k] :
        h \in LibHomes, f1 \in LibFiles, f2 \in LaterLibFiles, k \in [LibPaths -> PathKinds] }
NoLibWorld ==
    [home |-> NoHome, file |-> [r \in RealConfigs |-> AbsentFile], kind |-> [p \in LibPaths |-> "missing"]]

LibInitOver(worlds) ==
    /\ lfs \in worlds
    /\ lpc = "idle"
    /\ lfrom = "none"
    /\ lpaths = <<>>
    /\ lbuilt = <<>>
    /\ lstable = TRUE
    /\ lret = NotReturned
LibIdle == LibInitOver({NoLibWorld})

\* get_steam_libraries returns.
LibReturn(result) ==
    /\ lret' = result
    /\ lpc' = "done"
    /\ lpaths' = <<>>

\* steam.rs 64-82: find libraryfolders.vdf and read the paths it lists
FindAndParse ==
    /\ lpc = "idle"
    /\ \E found \in {FirstWithVdf(lfs, config_dirs(lfs.home))} :
          IF ~IsSome(found)
          THEN LibReturn(LibErr(SteamConfigNotFound)) /\ UNCHANGED lfrom
          ELSE /\ lfrom' = found.some
               /\ \E library_paths \in {parse_libraryfolders_vdf(lfs, found.some)} :
                     IF ~IsSome(library_paths)
                     THEN LibReturn(LibErr(ParseError))
                     ELSE /\ lpaths' = library_paths.some
                          /\ lpc' = "loop"
                          /\ UNCHANGED lret
    /\ UNCHANGED <<lfs, lbuilt, lstable>>
    /\ LibFrame

\* steam.rs 85-89: if let Ok(library) = SteamLibrary::new(path) { libraries.push(library) }
BuildLibrary ==
    /\ lpc = "loop"
    /\ lpaths # <<>>
    /\ lbuilt' = IF SteamLibraryNew(lfs, Head(lpaths)).ok
               THEN Append(lbuilt, [path |-> Head(lpaths), was |-> KindOf(lfs, Head(lpaths))])
               ELSE lbuilt
    /\ lpaths' = Tail(lpaths)
    /\ UNCHANGED <<lfs, lpc, lfrom, lstable, lret>>
    /\ LibFrame

\* steam.rs 91-101
ReturnLibraries ==
    /\ lpc = "loop"
    /\ lpaths = <<>>
    /\ IF lbuilt = <<>> THEN LibReturn(LibErr(SteamNotFound))
       ELSE LibReturn(LibOk([i \in 1 .. Len(lbuilt) |-> lbuilt[i].path]))
    /\ UNCHANGED <<lfs, lfrom, lbuilt, lstable>>
    /\ LibFrame

\* A listed path is created, removed or replaced while the loop runs.
LibEnvChange ==
    /\ lpc = "loop"
    /\ lstable
    /\ \E path \in LibPaths, kind \in PathKinds :
          /\ kind # lfs.kind[path]
          /\ lfs' = [lfs EXCEPT !.kind[path] = kind]
    /\ lstable' = FALSE
    /\ UNCHANGED <<lpc, lfrom, lpaths, lbuilt, lret>>
    /\ LibFrame

LibNext == FindAndParse \/ BuildLibrary \/ ReturnLibraries \/ LibEnvChange

(***************************************************************************)
(* ------------------------------ the window ----------------------------- *)
(* gui/app.rs: ProtonPrefixManagerApp::new (92-112) starts the loader      *)
(* thread; update (251-299) runs once per frame.  While `loading` is set   *)
(* the central panel shows a spinner (399-405), which asks for the next    *)
(* frame, so frames keep coming without input; afterwards a frame comes    *)
(* with the user's input.  A list of items is the set of their             *)
(* identifiers: sort_filtered_games orders the list and keeps its items.   *)
(***************************************************************************)
GameLists == SUBSET {1, 2}

\* app.rs 96-111: the loader stores what load_games_from_libraries returned
LoaderStores(list) ==
    /\ gloader = "running"
    /\ ginstalled' = list
    /\ gloader' = "stored"
    /\ UNCHANGED <<gtime, gloading, gfiltered, gerror, gsearch>>
    /\ GuiFrame
\* app.rs 102-108: an error is logged and nothing is stored
LoaderFails ==
    /\ gloader = "running"
    /\ gloader' = "failed"
    /\ UNCHANGED <<gtime, ginstalled, gloading, gfiltered, gerror, gsearch>>
    /\ GuiFrame

\* app.rs 269: ctx.input(|i| i.time) > 3.0
TimedOut(time) == time > 3

\* app.rs 131-155 with the query as it is: search_games shows the
\* installed games that match (all of them for the empty query)
search_games == ginstalled

\* app.rs 261-299: one frame
Update ==
    /\ \E checked \in
          { IF ~gloading THEN [loading |-> FALSE, filtered |-> gfiltered, error |-> gerror]
            ELSE IF ginstalled # {}
            THEN [loading |-> FALSE, filtered |-> ginstalled, error |-> gerror]
            ELSE IF TimedOut(gtime)
            THEN [loading |-> FALSE, filtered |-> gfiltered, error |-> TRUE]
            ELSE [loading |-> TRUE, filtered |-> gfiltered, error |-> gerror] } :
          /\ gloading' = checked.loading
          /\ gerror' = checked.error
          /\ gfiltered' = IF gsearch THEN search_games ELSE checked.filtered
    /\ gsearch' = FALSE
    /\ UNCHANGED <<gtime, gloader, ginstalled>>
    /\ GuiFrame
\* The frames that come by themselves.
UpdateLoading == gloading /\ Update

\* The user edits the search box (app.rs 367-377), or closes the error
\* popup (app.rs 288).
UserSearches ==
    /\ ~gsearch
    /\ gsearch' = TRUE
    /\ UNCHANGED <<gtime, gloader, ginstalled, gloading, gfiltered, gerror>>
    /\ GuiFrame
UserClosesError ==
    /\ gerror
    /\ gerror' = FALSE
    /\ UNCHANGED <<gtime, gloader, ginstalled, gloading, gfiltered, gsearch>>
    /\ GuiFrame

GuiTick ==
    /\ gtime < MaxGuiTime
    /\ gtime' = gtime + 1
    /\ UNCHANGED <<gloader, ginstalled, gloading, gfiltered, gerror, gsearch>>
    /\ GuiFrame

\* app.rs 52-66, 92-112: Default and new
GuiInit ==
    /\ gtime = 0
    /\ gloader = "running"
    /\ ginstalled = {}
    /\ gloading = TRUE
    /\ gfiltered = {}
    /\ gerror = FALSE
    /\ gsearch = FALSE
GuiIdle == GuiInit

GuiNext ==
    \/ \E list \in GameLists : LoaderStores(list)
    \/ LoaderFails
    \/ Update
    \/ UserSearches
    \/ UserClosesError
    \/ GuiTick

(***************************************************************************)
(* --------------------- the scan in parallel ---------------------------- *)
(* core/steam.rs 258-269: libraries.par_iter().map(load_games_from_library)*)
(* .collect() runs one task per element of the slice on the thread pool;   *)
(* collect returns when every task has returned, with the results in the   *)
(* order of the slice.  The tasks share the per-file cache through         *)
(* parse_appmanifest (utils/library.rs 106-119, 22-47).  A directory is    *)
(* readable or not; a path is a library and a file name.                   *)
(***************************************************************************)
mA == [fname |-> <<"appmanifest_", "1", ".acf">>, parsed |-> [appid |-> 1, name |-> <<"A">>, played |-> 5]]
mB == [fname |-> <<"appmanifest_", "2", ".acf">>, parsed |-> [appid |-> 2, name |-> <<"B">>, played |-> 7]]
mOld == [appid |-> 1, name |-> <<"O">>, played |-> 1]
ParLibs == {1, 2}
ParArgs == { <<>>, <<1>>, <<1, 2>>, <<2, 1>>, <<1, 1>> }
Dir(entries) == [ok |-> TRUE, entries |-> entries]
NoDir == [ok |-> FALSE, entries |-> {}]
ParWorlds ==
    { [l \in ParLibs |-> IF l = 1 THEN [steamapps |-> s1, compat |-> c1]
                                  ELSE [steamapps |-> s2, compat |-> c2]] :
        s1 \in {NoDir} \cup { Dir(x) : x \in SUBSET {mA, mB} },
        c1 \in {NoDir} \cup { Dir(x) : x \in SUBSET { <<"1">>, <<"5">> } },
        s2 \in {NoDir} \cup { Dir(x) : x \in SUBSET {mA} },
        c2 \in {NoDir} \cup { Dir(x) : x \in SUBSET { <<"2">> } } }
ParPaths == { <<l, e.fname>> : l \in ParLibs, e \in {mA, mB} }
NotCached == [appid |-> -2, name |-> <<>>, played |-> 0]
\* The per-file cache when the call begins: empty, or holding for one
\* manifest a text that the file no longer has.
ParCaches ==
    { [p \in ParPaths |-> NotCached],
      [p \in ParPaths |-> IF p = <<1, mA.fname>> THEN mOld ELSE NotCached] }

\* if let Ok(entries) = fs::read_dir(..) { for entry in entries.flatten() }
Entries(dir) == IF dir.ok THEN dir.entries ELSE {}

\* parse_appmanifest over read_manifest_cached: the cached text if there
\* is one, the file's text otherwise, which is then cached
ParsedThrough(c, path, e) == IF c[path] # NotCached THEN c[path] ELSE e.parsed
CachedThrough(c, path, e) == IF c[path] # NotCached THEN c ELSE [c EXCEPT ![path] = e.parsed]

\* One turn of the loop of lines 200-212, given what parse_appmanifest returned.
ManifestTurn(games, lib, fname, parsed) ==
    IF IsManifestName(fname) /\ parsed # NoManifest
    THEN games \o GameInfoNew(parsed.appid, parsed.name,
                              [lib |-> lib, dir |-> U32ToString(parsed.appid)],
                              TRUE, parsed.played)
    ELSE games
\* One turn of the loop of lines 219-237.
CompatTurn(games, lib, c) ==
    IF ParseU32(c) # -1 /\ ~AlreadyListed(games, ParseU32(c))
    THEN games \o GameInfoNew(ParseU32(c), AppName(ParseU32(c)), [lib |-> lib, dir |-> c], FALSE, 0)
    ELSE games

NewTask == [phase |-> "start", todo |-> {}, games |-> <<>>, ym |-> <<>>, yc |-> <<>>]

\* load_games_from_libraries, lines 255-261: the tasks are handed to the pool
ParBegin(a) ==
    /\ qphase \in {"idle", "merged"}
    /\ qarg' = a
    /\ qstart' = qcache
    /\ qtasks' = [i \in 1 .. Len(a) |-> NewTask]
    /\ qfinished' = <<>>
    /\ qresult' = <<>>
    /\ qphase' = "running"
    /\ UNCHANGED <<qfs, qcache>>
    /\ ParFrame

\* line 199: fs::read_dir(&steamapps_path)
TaskReadSteamapps(i) ==
    /\ qphase = "running"
    /\ qtasks[i].phase = "start"
    /\ qtasks' = [qtasks EXCEPT ![i].phase = "manifests",
                                ![i].todo = Entries(qfs[qarg[i]].steamapps)]
    /\ UNCHANGED <<qfs, qstart, qcache, qarg, qphase, qfinished, qresult>>
    /\ ParFrame

\* lines 200-212
TaskManifest(i, e) ==
    /\ qphase = "running"
    /\ qtasks[i].phase = "manifests"
    /\ e \in qtasks[i].todo
    /\ LET path == <<qarg[i], e.fname>> IN
          /\ qtasks' = [qtasks EXCEPT
                ![i].todo = @ \ {e},
                ![i].ym = Append(@, e),
                ![i].games = ManifestTurn(@, qarg[i], e.fname, ParsedThrough(qcache, path, e))]
          /\ qcache' = CachedThrough(qcache, path, e)
    /\ UNCHANGED <<qfs, qstart, qarg, qphase, qfinished, qresult>>
    /\ ParFrame

\* lines 216-217: fs::read_dir(compatdata)
TaskReadCompat(i) ==
    /\ qphase = "running"
    /\ qtasks[i].phase = "manifests"
    /\ qtasks[i].todo = {}
    /\ qtasks' = [qtasks EXCEPT ![i].phase = "compat",
                                ![i].todo = Entries(qfs[qarg[i]].compat)]
    /\ UNCHANGED <<qfs, qstart, qcache, qarg, qphase, qfinished, qresult>>
    /\ ParFrame

\* lines 218-237
TaskCompat(i, c) ==
    /\ qphase = "running"
    /\ qtasks[i].phase = "compat"
    /\ c \in qtasks[i].todo
    /\ qtasks' = [qtasks EXCEPT
          ![i].todo = @ \ {c},
          ![i].yc = Append(@, c),
          ![i].games = CompatTurn(@, qarg[i], c)]
    /\ UNCHANGED <<qfs, qstart, qcache, qarg, qphase, qfinished, qresult>>
    /\ ParFrame

\* line 240: Ok(games)
TaskReturns(i) ==
    /\ qphase = "running"
    /\ qtasks[i].phase = "compat"
    /\ qtasks[i].todo = {}
    /\ qtasks' = [qtasks EXCEPT ![i].phase = "done"]
    /\ qfinished' = Append(qfinished, i)
    /\ UNCHANGED <<qfs, qstart, qcache, qarg, qphase, qresult>>
    /\ ParFrame

RECURSIVE Flatten(_)
Flatten(lists) == IF lists = <<>> THEN <<>> ELSE Head(lists) \o Flatten(Tail(lists))

\* A mutation of Collect: the results in the order in which the tasks returned.
CollectAsReturned(tasks, finished) == [k \in 1 .. Len(finished) |-> tasks[finished[k]].games]
\* lines 258-261: collect::<Vec<_>>() of an indexed parallel iterator
Collect(tasks, finished) == [k \in 1 .. Len(tasks) |-> tasks[k].games]

\* lines 264-269, once collect has returned
Merge ==
    /\ qphase = "running"
    /\ \A i \in 1 .. Len(qarg) : qtasks[i].phase = "done"
    /\ qresult' = Flatten(Collect(qtasks, qfinished))
    /\ qphase' = "merged"
    /\ UNCHANGED <<qfs, qstart, qcache, qarg, qtasks, qfinished>>
    /\ ParFrame

ParInit ==
    /\ qfs \in ParWorlds
    /\ qcache \in ParCaches
    /\ qstart = qcache
    /\ qarg = <<>>
    /\ qphase = "idle"
    /\ qtasks = <<>>
    /\ qfinished = <<>>
    /\ qresult = <<>>
ParIdle ==
    /\ qfs = [l \in ParLibs |-> [steamapps |-> NoDir, compat |-> NoDir]]
    /\ qcache = [p \in ParPaths |-> NotCached]
    /\ ParInit

ParNext ==
    \/ \E a \in ParArgs : ParBegin(a)
    \/ \E i \in 1 .. Len(qarg) : TaskReadSteamapps(i)
    \/ \E i \in 1 .. Len(qarg) : \E e \in qtasks[i].todo : TaskManifest(i, e)
    \/ \E i \in 1 .. Len(qarg) : TaskReadCompat(i)
    \/ \E i \in 1 .. Len(qarg) : \E c \in qtasks[i].todo : TaskCompat(i, c)
    \/ \E i \in 1 .. Len(qarg) : TaskReturns(i)
    \/ Merge

(***************************************************************************)
(* ----------------------- the mutexes of the caches --------------------- *)
(* LIBRARY_CACHE and MANIFEST_CACHE (core/steam.rs 22-30),                 *)
(* MANIFEST_FILE_CACHE and MANIFEST_FILE_ORDER (utils/library.rs 16-19),   *)
(* LOCALCONFIG_CACHE and LOCALCONFIG_ORDER (utils/user_config.rs 16-19).   *)
(* An operation is the sequence of what it does to the mutexes; a guard    *)
(* that is a local is dropped when the function returns, a temporary at    *)
(* the end of its statement.  The callers are threads of the application   *)
(* (the window, the loader started by new); the tasks of par_iter run on   *)
(* the workers of the thread pool while the caller waits in collect.       *)
(***************************************************************************)
Callers == {"u1", "u2"}
Workers == {"w1", "w2"}
LockThreads == Callers \cup Workers
FilePairs == {"manifest", "localconfig"}
MapOf(pair) == IF pair = "manifest" THEN "MANIFEST_FILE_CACHE" ELSE "LOCALCONFIG_CACHE"
QueueOf(pair) == IF pair = "manifest" THEN "MANIFEST_FILE_ORDER" ELSE "LOCALCONFIG_ORDER"
Mutexes == {"LIBRARY_CACHE", "MANIFEST_CACHE"} \cup { MapOf(x) : x \in FilePairs } \cup { QueueOf(x) : x \in FilePairs }

Lock(m) == [do |-> "lock", mutex |-> m, n |-> 0]
Unlock(m) == [do |-> "unlock", mutex |-> m, n |-> 0]
HandTasks(n) == [do |-> "fork", mutex |-> "none", n |-> n]
WaitTasks == [do |-> "join", mutex |-> "none", n |-> 0]
Leave == [do |-> "return", mutex |-> "none", n |-> 0]

\* steam.rs 54-102: the guard `cache` lives to the end of the function
get_steam_libraries == << Lock("LIBRARY_CACHE"), Leave >>
\* steam.rs 244-278 over a slice of n libraries; served from the cache
\* the function returns at line 250
load_games_from_libraries(n, hit) ==
    IF hit THEN << Lock("MANIFEST_CACHE"), Leave >>
    ELSE << Lock("MANIFEST_CACHE"), HandTasks(n), WaitTasks, Leave >>
\* library.rs 22-47, user_config.rs 22-47
read_cached(pair) == << Lock(MapOf(pair)), Lock(QueueOf(pair)), Leave >>
\* A mutation of update_cache: the queue is locked first.
update_cache_queue_first(pair) == << Lock(QueueOf(pair)), Lock(MapOf(pair)), Leave >>
\* library.rs 49-68, user_config.rs 49-68
update_cache(pair) == << Lock(MapOf(pair)), Lock(QueueOf(pair)), Leave >>
\* library.rs 69-72, user_config.rs 70-73: each guard is a temporary
clear_cache(pair) ==
    << Lock(MapOf(pair)), Unlock(MapOf(pair)), Lock(QueueOf(pair)), Unlock(QueueOf(pair)), Leave >>
\* steam.rs 194-241 as a task: one parse_appmanifest, hence one
\* read_manifest_cached, for each of its r manifests
RECURSIVE load_games_from_library(_)
load_games_from_library(r) ==
    IF r = 0 THEN << [do |-> "done", mutex |-> "none", n |-> 0] >>
    ELSE read_cached("manifest") \o load_games_from_library(r - 1)

Operations ==
    { [name |-> "get_steam_libraries", prog |-> get_steam_libraries] }
    \cup { [name |-> "load_games_from_libraries", prog |-> load_games_from_libraries(n, h)] :
              n \in 0 .. MaxJobs, h \in BOOLEAN }
    \cup { [name |-> "read_cached", prog |-> read_cached(x)] : x \in FilePairs }
    \cup { [name |-> "update_cache", prog |-> update_cache(x)] : x \in FilePairs }
    \cup { [name |-> "clear_cache", prog |-> clear_cache(x)] : x \in FilePairs }

HeldBy(t) == { m \in Mutexes : xowner[m] = t }
Released(t) == [m \in Mutexes |-> IF xowner[m] = t THEN "none" ELSE xowner[m]]

\* A caller begins an operation.
Begins(t, op) ==
    /\ t \in Callers
    /\ xop[t] = "none"
    /\ xop' = [xop EXCEPT ![t] = op.name]
    /\ xprog' = [xprog EXCEPT ![t] = op.prog]
    /\ UNCHANGED <<xowner, xacq, xjobs, xleft>>
    /\ LockFrame

\* A worker of the pool takes a task.
TakeTask(w, r) ==
    /\ w \in Workers
    /\ xop[w] = "none"
    /\ xjobs > 0
    /\ xjobs' = xjobs - 1
    /\ xop' = [xop EXCEPT ![w] = "load_games_from_library"]
    /\ xprog' = [xprog EXCEPT ![w] = load_games_from_library(r)]
    /\ UNCHANGED <<xowner, xacq, xleft>>
    /\ LockFrame

\* Mutex::lock: the thread waits until the mutex is free
DoLock(t) ==
    /\ xprog[t] # <<>>
    /\ Head(xprog[t]).do = "lock"
    /\ xowner[Head(xprog[t]).mutex] = "none"
    /\ xowner' = [xowner EXCEPT ![Head(xprog[t]).mutex] = t]
    /\ xacq' = [xacq EXCEPT ![t] = Append(@, Head(xprog[t]).mutex)]
    /\ xprog' = [xprog EXCEPT ![t] = Tail(@)]
    /\ UNCHANGED <<xop, xjobs, xleft>>
    /\ LockFrame

\* The temporary guard is dropped at the end of the statement.
DoUnlock(t) ==
    /\ xprog[t] # <<>>
    /\ Head(xprog[t]).do = "unlock"
    /\ xowner' = [xowner EXCEPT ![Head(xprog[t]).mutex] = "none"]
    /\ xprog' = [xprog EXCEPT ![t] = Tail(@)]
    /\ UNCHANGED <<xop, xacq, xjobs, xleft>>
    /\ LockFrame

\* par_iter().map(..): one task for each library of the slice
DoFork(t) ==
    /\ xprog[t] # <<>>
    /\ Head(xprog[t]).do = "fork"
    /\ xjobs' = xjobs + Head(xprog[t]).n
    /\ xleft' = xleft + Head(xprog[t]).n
    /\ xprog' = [xprog EXCEPT ![t] = Tail(@)]
    /\ UNCHANGED <<xowner, xop, xacq>>
    /\ LockFrame

\* collect(): the caller waits until every task has returned
DoJoin(t) ==
    /\ xprog[t] # <<>>
    /\ Head(xprog[t]).do = "join"
    /\ xleft = 0
    /\ xprog' = [xprog EXCEPT ![t] = Tail(@)]
    /\ UNCHANGED <<xowner, xop, xacq, xjobs, xleft>>
    /\ LockFrame

\* The function returns: its guards are dropped.  A task goes on with its
\* next manifest.
DoReturn(t) ==
    /\ xprog[t] # <<>>
    /\ Head(xprog[t]).do = "return"
    /\ xowner' = Released(t)
    /\ xacq' = [xacq EXCEPT ![t] = <<>>]
    /\ xprog' = [xprog EXCEPT ![t] = Tail(@)]
    /\ xop' = [xop EXCEPT ![t] = IF Tail(xprog[t]) = <<>> THEN "none" ELSE @]
    /\ UNCHANGED <<xjobs, xleft>>
    /\ LockFrame

\* Ok(games) of a task
TaskDone(w) ==
    /\ xprog[w] # <<>>
    /\ Head(xprog[w]).do = "done"
    /\ xleft' = xleft - 1
    /\ xprog' = [xprog EXCEPT ![w] = <<>>]
    /\ xop' = [xop EXCEPT ![w] = "none"]
    /\ UNCHANGED <<xowner, xacq, xjobs>>
    /\ LockFrame

LockInit ==
    /\ xowner = [m \in Mutexes |-> "none"]
    /\ xprog = [t \in LockThreads |-> <<>>]
    /\ xop = [t \in LockThreads |-> "none"]
    /\ xacq = [t \in LockThreads |-> <<>>]
    /\ xjobs = 0
    /\ xleft = 0
LockIdle == LockInit

LockNext ==
    \/ \E t \in Callers : \E op \in Operations : Begins(t, op)
    \/ \E w \in Workers : \E r \in {0, 1, 2} : TakeTask(w, r)
    \/ \E t \in LockThreads : DoLock(t)
    \/ \E t \in LockThreads : DoUnlock(t)
    \/ \E t \in LockThreads : DoFork(t)
    \/ \E t \in LockThreads : DoJoin(t)
    \/ \E t \in LockThreads : DoReturn(t)
    \/ \E w \in Workers : TaskDone(w)

(***************************************************************************)
(* ------------------------- specifications ------------------------------ *)
(***************************************************************************)

\* The per-file caches under concurrent threads and an external writer.
InitFile == FileInitOver(FPaths) /\ TTLIdle /\ ScanIdle /\ RtIdle /\ RepairIdle /\ PathIdle /\ IdIdle /\ KvIdle /\ LibIdle /\ ClockIdle /\ GuiIdle /\ ParIdle /\ LockIdle
SpecFile == InitFile /\ [][FileNext]_vars

\* The per-file caches filled past their limits, one call at a time.
InitEvict == FileInitOver(PathIds) /\ TTLIdle /\ ScanIdle /\ RtIdle /\ RepairIdle /\ PathIdle /\ IdIdle /\ KvIdle /\ LibIdle /\ ClockIdle /\ GuiIdle /\ ParIdle /\ LockIdle
SpecEvict == InitEvict /\ [][EvictNext]_vars

\* The whole-result caches under concurrent callers and a running clock.
InitTTL == TTLInit /\ FileIdle /\ ScanIdle /\ RtIdle /\ RepairIdle /\ PathIdle /\ IdIdle /\ KvIdle /\ LibIdle /\ ClockIdle /\ GuiIdle /\ ParIdle /\ LockIdle
SpecTTL == InitTTL /\ [][TTLNext]_vars

\* One scan after another over every library layout.
InitScan == ScanInit /\ FileIdle /\ TTLIdle /\ RtIdle /\ RepairIdle /\ PathIdle /\ IdIdle /\ KvIdle /\ LibIdle /\ ClockIdle /\ GuiIdle /\ ParIdle /\ LockIdle
SpecScan == InitScan /\ [][ScanNext]_vars

\* One runtime lookup after another over every layout of the roots.
InitMatcher == RtInitOver(RtWorlds) /\ FileIdle /\ TTLIdle /\ ScanIdle /\ RepairIdle /\ PathIdle /\ IdIdle /\ KvIdle /\ LibIdle /\ ClockIdle /\ GuiIdle /\ ParIdle /\ LockIdle
SpecMatcher == InitMatcher /\ [][RtNext]_vars

\* Repairs of one prefix, over every state of its directories, version
\* files and runtime.
InitRepair == RepairInit /\ RtInitOver(RepairRoots) /\ FileIdle /\ TTLIdle /\ ScanIdle /\ PathIdle /\ IdIdle /\ KvIdle /\ LibIdle /\ ClockIdle /\ GuiIdle /\ ParIdle /\ LockIdle
SpecRepair == InitRepair /\ [][RepairNext]_vars

\* The stepwise matcher returns what find_proton_runtime as a whole allows.
MatcherStepsAgree ==
    (rpc = "done" /\ rlabel # <<>>) => rfound \in find_proton_runtime(rlabel, rfs)

\* The discovery functions over every home directory.
InitPaths ==
    PathInitOver(Homes) /\ FileIdle /\ TTLIdle /\ ScanIdle /\ RtIdle /\ RepairIdle /\ IdIdle /\ KvIdle /\ LibIdle /\ ClockIdle /\ GuiIdle /\ ParIdle /\ LockIdle
SpecPaths == InitPaths /\ [][PathNext]_vars

\* The resolver over every login history and userdata layout.
InitIdentity ==
    IdInitOver(IdWorlds) /\ FileIdle /\ TTLIdle /\ ScanIdle /\ RtIdle /\ RepairIdle /\ PathIdle /\ KvIdle /\ LibIdle /\ ClockIdle /\ GuiIdle /\ ParIdle /\ LockIdle
SpecIdentity == InitIdentity /\ [][IdNext]_vars

\* The resolver over the identifiers of NarrowTable.
InitNarrow ==
    IdInitOver(NarrowWorlds) /\ FileIdle /\ TTLIdle /\ ScanIdle /\ RtIdle /\ RepairIdle /\ PathIdle /\ KvIdle /\ LibIdle /\ ClockIdle /\ GuiIdle /\ ParIdle /\ LockIdle
SpecNarrow == InitNarrow /\ [][IdNext]_vars

\* The set and get functions of the codec over texts of every shape.
InitCodec ==
    KvInitOver({"manifest", "launch", "compat"}) /\ FileIdle /\ TTLIdle /\ ScanIdle /\ RtIdle
    /\ RepairIdle /\ PathIdle /\ IdIdle /\ LibIdle /\ ClockIdle /\ GuiIdle /\ ParIdle /\ LockIdle
SpecCodec == InitCodec /\ [][KvNext]_vars

\* get_steam_libraries with nothing fresh in its cache, over home
\* directories and libraryfolders.vdf files of every shape.
InitLibrary ==
    LibInitOver(LibWorlds) /\ FileIdle /\ TTLIdle /\ ScanIdle /\ RtIdle /\ RepairIdle
    /\ PathIdle /\ IdIdle /\ KvIdle /\ ClockIdle /\ GuiIdle /\ ParIdle /\ LockIdle
SpecLibrary == InitLibrary /\ [][LibNext]_vars

\* The whole-result caches under a wall clock that may be set back.
InitClock ==
    ClockInit /\ FileIdle /\ ScanIdle /\ RtIdle /\ RepairIdle /\ PathIdle /\ IdIdle /\ KvIdle
    /\ LibIdle /\ GuiIdle /\ ParIdle /\ LockIdle
SpecClock == InitClock /\ [][ClockNext]_vars

\* The window from its creation on.  Time passes, and while the spinner
\* is shown the next frame comes.
InitGui ==
    GuiInit /\ FileIdle /\ TTLIdle /\ ScanIdle /\ RtIdle /\ RepairIdle /\ PathIdle /\ IdIdle
    /\ KvIdle /\ LibIdle /\ ClockIdle /\ ParIdle /\ LockIdle
SpecGui == InitGui /\ [][GuiNext]_vars /\ WF_vars(GuiTick) /\ WF_vars(UpdateLoading)

\* Calls of load_games_from_libraries whose tasks run in any interleaving.
InitParallel ==
    ParInit /\ FileIdle /\ TTLIdle /\ ScanIdle /\ RtIdle /\ RepairIdle /\ PathIdle /\ IdIdle
    /\ KvIdle /\ LibIdle /\ ClockIdle /\ GuiIdle /\ LockIdle
SpecParallel == InitParallel /\ [][ParNext]_vars

\* Two threads of the application calling the cache operations, and the
\* workers of the thread pool.
InitLocks ==
    LockInit /\ FileIdle /\ TTLIdle /\ ScanIdle /\ RtIdle /\ RepairIdle /\ PathIdle /\ IdIdle
    /\ KvIdle /\ LibIdle /\ ClockIdle /\ GuiIdle /\ ParIdle
SpecLocks == InitLocks /\ [][LockNext]_vars

ReadReturnsCurrentUnderRaces ==
    \A t \in Threads :
        (ret[t] # "none" /\ ~dirty[t]) => ret[t] = fsContent[tpath[t]]

\* C2: a call that finds an entry returns the entry's value, without touching
\* the file system or the cache, if and only if the entry's age is below
\* CACHE_DURATION; at that age or older it goes on to recompute, and no call
\* returns a cached value in any other step.
CheckStep(t) == wpc[t] = "lock" /\ wpc'[t] # "lock"

TTLDecision ==
    \A t \in Threads :
        /\ (CheckStep(t) /\ wcache # NoCache) =>
              LET age == now - wcache.timestamp
                  returned == /\ lastRet' = [thread |-> t, kind |-> "hit",
                                             value |-> wcache.value]
                              /\ wpc'[t] = "idle"
                              /\ wcache' = wcache
              IN /\ returned <=> age < CACHE_DURATION
                 /\ age >= CACHE_DURATION => wpc'[t] = "compute" /\ lastRet' = lastRet
        /\ (wpc[t] # "idle" /\ wpc'[t] = "idle" /\ lastRet'.kind = "hit") =>
              /\ CheckStep(t)
              /\ wcache # NoCache
              /\ now - wcache.timestamp < CACHE_DURATION

FreshIffYoung == [][TTLDecision]_vars

\* A cached value was returned at the last second of the window.
HitAtLastSecond ==
    /\ lastRet.kind = "hit"
    /\ wcache # NoCache
    /\ now - wcache.timestamp = CACHE_DURATION - 1
    /\ \A t \in Threads : wpc[t] = "idle"

\* C3: the check-recompute-store sequences of concurrent callers exclude each
\* other; of overlapping calls made on an empty or expired cache that all
\* complete within one window of the first, exactly one recomputes; every
\* other caller returns the stored entry's value, and what is stored is the
\* complete result of the recomputation.
MutualExclusion == Cardinality({t \in Threads : wpc[t] \in {"compute", "loop"}}) <= 1

BurstDone ==
    /\ \A t \in Threads : wpc[t] = "idle"
    /\ burst.size = 2
    /\ burst.invalid
    /\ ~burst.err
    /\ now - burst.start < CACHE_DURATION

BurstOneRecompute == BurstDone => burst.fresh = 1

HitReturnsStored ==
    \A t \in Threads :
        (CheckStep(t) /\ wpc'[t] = "idle") =>
            lastRet' = [thread |-> t, kind |-> "hit", value |-> wcache.value]

StoreIsComplete ==
    /\ \A t \in Threads :
          (wpc[t] = "loop" /\ wpc'[t] = "idle" /\ lastRet'.kind = "fresh") =>
              /\ wcache'.value = lastRet'.value
              /\ wclean[t] => wcache'.value = Expected(winst, wfs, warg[t])
    /\ wcache' # wcache =>
          \E t \in Threads : wpc[t] = "loop" /\ wpend[t] = <<>> /\ wpc'[t] = "idle"

PopulationBounded == Cardinality(Cached) <= Limit /\ Len(order) <= Limit

\* C4: a cache hit changes neither the map nor the queue; an insertion puts
\* the path at the back of the queue, keeps the order of the others and, when
\* the queue would exceed the limit, removes exactly the path at its front.
EvictsFront ==
    LET p == lastOp'.path IN
    CASE lastOp'.kind = "hit" -> cache' = cache /\ order' = order
      [] lastOp'.kind \in {"miss", "update"} ->
            IF p \notin InOrder /\ Len(order) = Limit
            THEN /\ order' = Append(Tail(order), p)
                 /\ Cached' = (Cached \ {Head(order)}) \cup {p}
            ELSE /\ order' = Append(Retain(order, p), p)
                 /\ Cached' = Cached \cup {p}
      [] lastOp'.kind = "modify" -> cache' = cache /\ order' = order
      [] OTHER -> TRUE

BoundedFrontEviction == [](PopulationBounded) /\ [][EvictsFront]_vars

\* An insertion into a full cache has evicted the front of the queue.
EvictionHappened ==
    /\ lastOp.kind \in {"miss", "update"}
    /\ hi > Limit
    /\ Len(order) = Limit
    /\ Cardinality(Cached) = Limit

\* C5: in the list one scan returns no two items share an identifier, and
\* an item found through a manifest and through a compatdata directory is
\* there once, as the manifest describes it.
ScanIdsUnique ==
    sphase = "done" =>
        \A i, j \in 1 .. Len(sresult) :
            sresult[i].app_id = sresult[j].app_id => i = j

\* C6: the matcher returns what the stages give when taken in the order
\* exact under the libraries, exact under the tool roots, substring under the
\* libraries, substring under the tool roots: the first stage with a hit
\* decides.  So when a directory named exactly like the label is installed
\* under a searched root, the result is an exact match of a candidate name
\* and no substring stage has run.
StagedOrderHits ==
    LET cands == Candidates(rlabel)
        libs == IF rfs.libsOk THEN DOMAIN rfs.libs ELSE {}
        tools == DOMAIN compatibilitytools_dirs
        s1 == ExactHits("lib", rfs.libs, libs, cands)
        hitT == { r \in tools : ExactHits("tool", compatibilitytools_dirs, {r}, cands) # {} }
        s2 == IF hitT = {} THEN {}
              ELSE ExactHits("tool", compatibilitytools_dirs,
                             {CHOOSE r \in hitT : \A q \in hitT : r <= q}, cands)
        s3 == FuzzyHits("lib", rfs.libs, libs, rlabel)
        s4 == FuzzyHits("tool", compatibilitytools_dirs, tools, rlabel)
    IN IF s1 # {} THEN s1 ELSE IF s2 # {} THEN s2 ELSE IF s3 # {} THEN s3
       ELSE IF s4 # {} THEN s4 ELSE {NoPath}

ExactlyNamedInstalled ==
    \/ rfs.libsOk /\ \E r \in DOMAIN rfs.libs : [name |-> rlabel, dir |-> TRUE] \in rfs.libs[r]
    \/ \E r \in DOMAIN compatibilitytools_dirs :
          [name |-> rlabel, dir |-> TRUE] \in compatibilitytools_dirs[r]

ExactStagesFirst ==
    (rpc = "done" /\ rlabel # <<>>) =>
        /\ rfound \in StagedOrderHits
        /\ ExactlyNamedInstalled =>
              /\ \E c \in DOMAIN Candidates(rlabel) : rfound.name = Candidates(rlabel)[c]
              /\ \A i \in 1 .. Len(rstages) : rstages[i] \in {"exactLibs", "toolExact"}

\* What the runtime directory holds of the two kinds of executable.
WinebootsPresent == { WinebootCandidates[i] : i \in DOMAIN WinebootCandidates } \cap rbins
WinesPresent == { WineCandidates[i] : i \in DOMAIN WineCandidates } \cap rbins
RuntimeLocated == pruntime.path # NoPath

\* C7: whenever the runtime was not located, or no wineboot was found inside
\* the located runtime, the repair invokes the wineboot of the search path
\* with WINEPREFIX set to the pfx directory.
FallbackWithoutWineboot ==
    pplan # NoPlan =>
        ((~RuntimeLocated \/ WinebootsPresent = {}) => pplan = SystemWineboot)

\* C7, as the code has it: a missing label or runtime never fails the run;
\* the wineboot of the search path is invoked, with WINEPREFIX set to the pfx
\* directory, whenever the runtime was not located or holds neither a
\* wineboot nor a wine executable; a located runtime without wineboot but
\* with wine has its wine run with the arguments wineboot -u.
FallbackWithoutWinebootAndWine ==
    /\ pplan # NoPlan =>
          /\ pplan.WINEPREFIX = PfxPath
          /\ (~RuntimeLocated \/ (WinebootsPresent = {} /\ WinesPresent = {}))
                => pplan = SystemWineboot
          /\ (RuntimeLocated /\ WinebootsPresent = {} /\ WinesPresent # {})
                => /\ pplan.program.runtime = pruntime.path
                   /\ pplan.program.file \in WinesPresent
                   /\ pplan.args = <<"wineboot", "-u">>
    /\ (Len(pphases) >= 2 /\ pphases[Len(pphases)] = "Failed")
          => pphases[Len(pphases) - 1] # "RuntimeLookup"
    /\ ppc \in {"BootstrapInvoked", "NotStarted"} => pplan # NoPlan

\* A located runtime held neither executable and the wineboot of the search
\* path was started.
FellBackFromEmptyRuntime ==
    /\ RuntimeLocated
    /\ rbins = {}
    /\ pstarted = 1
    /\ pplan = SystemWineboot

\* C8: a run goes Start, DirectoriesEnsured, runtime lookup,
\* BootstrapInvoked and ends in Success or Failed, or fails from Start; it
\* starts at most one process; it ends in Success exactly when that process
\* exited with status zero, and in Failed when a directory could not be
\* created, the process could not be started or it exited otherwise.
FullRun == <<"Start", "DirectoriesEnsured", "RuntimeLookup", "BootstrapInvoked">>
IsPrefix(a, b) == Len(a) <= Len(b) /\ SubSeq(b, 1, Len(a)) = a

RunShape ==
    /\ \/ IsPrefix(pphases, Append(FullRun, "Success"))
       \/ IsPrefix(pphases, Append(FullRun, "Failed"))
       \/ pphases = <<"Start", "Failed">>
    /\ pstarted <= 1
    /\ ppc \in {"Success", "Failed"} <=> pphases[Len(pphases)] \in {"Success", "Failed"}
    /\ ppc = "Success" <=> pphases[Len(pphases)] = "Success"
    /\ ppc \in {"Success", "Failed"} =>
          /\ ppc = "Success" <=> (pstarted = 1 /\ pexit = 0)
          /\ ppc = "Success" <=> pret = Ok
          /\ ppc = "Failed" =>
                /\ ~pret.ok /\ pret.err # NoError
                /\ \/ pphases = <<"Start", "Failed">> /\ pio # "none" /\ pstarted = 0
                   \/ pphases = Append(FullRun, "Failed") /\ pio # "none" /\ pstarted = 0
                   \/ pphases = Append(FullRun, "Failed") /\ pstarted = 1
                        /\ pexit \in ExitStatuses \ {0}

\* A run ended in Success after the executable of a located runtime exited
\* with status zero.
RuntimeRepairSucceeded ==
    /\ ppc = "Success"
    /\ pexit = 0
    /\ RuntimeLocated
    /\ pplan # SystemWineboot

\* C9: pfx, pfx/drive_c and pfx/dosdevices exist before a process is
\* invoked; directories that were present are left as they were; a failure
\* to create one ends the run at once with that I/O error and without a
\* process.
DirectoriesFirst ==
    /\ ("BootstrapInvoked" \in {pphases[i] : i \in DOMAIN pphases} \/ pstarted > 0) =>
          \A d \in DOMAIN pdirs : pdirs[d] \in {"old", "new"}
    /\ \A d \in DOMAIN pdirs : pbefore[d] # "absent" => pdirs[d] = pbefore[d]
    /\ pphases = <<"Start", "Failed">> =>
          /\ pio \in IoErrors
          /\ pret = Err(ErrorFrom(pio))
          /\ pstarted = 0
          /\ pplan = NoPlan

\* A process was started on a prefix of which one directory was there and
\* another had to be created.
CreatedMissingKeptPresent ==
    /\ pstarted = 1
    /\ pbefore.drive_c = "old"
    /\ pbefore.dosdevices = "absent"
    /\ pdirs.drive_c = "old"
    /\ pdirs.dosdevices = "new"

\* C10: when the process exits with a non-zero status, the error returned
\* carries that status in its text.
StatusText(status) == Digits[status + 1]

ExitStatusSurfaced ==
    (ppc = "Failed" /\ pexit \in {1, 2}) =>
        \E i \in DOMAIN Display(pret.err) : Display(pret.err)[i] = StatusText(pexit)

\* The identifiers some config root flags as most recent, per root.
FlaggedIds(login) ==
    IF login.kind = "parsed" /\ IsSome(UsersObj(login.vdf))
    THEN { uid \in DOMAIN UsersObj(login.vdf).some :
             UsersObj(login.vdf).some[uid][1] = Flagged }
    ELSE {}
NoneFlagged == \A i \in 1 .. Len(ifs.login) : FlaggedIds(ifs.login[i]) = {}
\* The settings files that exist, over all userdata roots.
ExistingSettings ==
    { LocalConfig(i, n) : i \in 1 .. Len(ifs.users), n \in {uidNarrow, accountOfWide} } \cap
    { f \in [root : 1 .. Len(ifs.users), user : {uidNarrow, accountOfWide}] :
        f.user \in DOMAIN ifs.users[f.root] /\ ifs.users[f.root][f.user] = "settings" }
TheOnlySettings ==
    IF Cardinality(ExistingSettings) = 1 THEN Some(CHOOSE f \in ExistingSettings : TRUE) ELSE None

\* C11 as stated: when no login-history entry flagged most-recent is found
\* in any config root, expected_localconfig_path returns the settings file
\* if exactly one exists in the userdata roots, and nothing if more than
\* one or none exists.
FallbackWithoutRecent ==
    (iop = "expected_localconfig_path" /\ NoneFlagged) => iret = TheOnlySettings

\* The account the identifiers of the login histories stand for.
AccountOf(uid) == IF uid = uidWide THEN accountOfWide ELSE uid
\* The flagged identifiers of the first config root that has one.
FirstFlaggedIds ==
    LET first == CHOOSE i \in 1 .. Len(ifs.login) :
                     /\ FlaggedIds(ifs.login[i]) # {}
                     /\ \A j \in 1 .. (i - 1) : FlaggedIds(ifs.login[j]) = {}
    IN FlaggedIds(ifs.login[first])
HasUserDir(uid) == \E i \in 1 .. Len(ifs.users) : uid \in DOMAIN ifs.users[i]

\* C11 (amended): expected_localconfig_path returns nothing when no entry
\* flagged most-recent is found; when one is found and a userdata root holds
\* a directory for it, the settings path in the first such root, whether
\* the file exists or not; when one is found and no userdata root holds a
\* directory for it, the settings file if exactly one exists in the
\* userdata roots and nothing if more than one or none exists.
FallbackWhenUserDirMissing ==
    iop = "expected_localconfig_path" =>
        /\ NoneFlagged => iret = None
        /\ ~NoneFlagged =>
              \E uid \in FirstFlaggedIds :
                 /\ HasUserDir(AccountOf(uid)) =>
                       /\ IsSome(iret)
                       /\ iret.some.user = AccountOf(uid)
                       /\ AccountOf(uid) \in DOMAIN ifs.users[iret.some.root]
                       /\ \A j \in 1 .. (iret.some.root - 1) : AccountOf(uid) \notin DOMAIN ifs.users[j]
                 /\ ~HasUserDir(AccountOf(uid)) => iret = TheOnlySettings

\* The flagged identity has no directory and the one settings file of
\* another identity was returned.
FellBackToOnlySettings ==
    /\ iop = "expected_localconfig_path"
    /\ ~NoneFlagged
    /\ \A uid \in FirstFlaggedIds : ~HasUserDir(AccountOf(uid))
    /\ IsSome(iret)
    /\ iret = TheOnlySettings

TheFlagged == CHOOSE uid \in NarrowInputs : FlaggedIds(ifs.login[1]) = {uid}
NarrowsToLow32 ==
    /\ (iop = "steamid_to_accountid" /\ IsSome(Narrowed(iarg))) => iret = Narrowed(iarg)
    /\ (iop = "most_recent_user_id" /\ IsSome(Narrowed(TheFlagged))) => iret = Narrowed(TheFlagged)
    /\ (iop = "expected_localconfig_path" /\ IsSome(Narrowed(TheFlagged))
          /\ Narrowed(TheFlagged).some \in DOMAIN ifs.users[1]) =>
             iret = Some(LocalConfig(1, Narrowed(TheFlagged).some))
    /\ (iop = "find_localconfig_files" /\ IsSome(Narrowed(TheFlagged))
          /\ Narrowed(TheFlagged).some \in DOMAIN ifs.users[1]) =>
             iret = Some(<<LocalConfig(1, Narrowed(TheFlagged).some)>>)

\* The wide identifier of the example was narrowed, and the directory of
\* the account was chosen over the one named like the wide identifier.
WideNarrowed ==
    /\ iop = "expected_localconfig_path"
    /\ TheFlagged = uidWide
    /\ DOMAIN ifs.users[1] = {uidWide, accountOfWide}
    /\ iret = Some(LocalConfig(1, accountOfWide))

\* The fixed candidate list of each discovery function, spelled from the
\* home directory.
CandidatesOf(fn) ==
    CASE fn = "steam_base_dirs" -> BaseCandidates
      [] fn = "config_dirs" -> ConfigCandidates
      [] fn = "userdata_dirs" -> [i \in 1 .. Len(BaseCandidates) |-> Join(BaseCandidates[i], "userdata")]
\* The directory a candidate really is.
RealDir(cand) == <<Resolve(hfs, cand)>>
FirstCandidate(fn, dir) ==
    CHOOSE i \in 1 .. Len(CandidatesOf(fn)) :
        /\ RealDir(CandidatesOf(fn)[i]) = dir
        /\ \A j \in 1 .. (i - 1) : RealDir(CandidatesOf(fn)[j]) # dir

\* C20: steam_base_dirs, config_dirs and userdata_dirs return only
\* candidate locations that exist, every existing one as its canonical
\* directory and each canonical directory once, in the order in which the
\* fixed candidate list first reaches them.
DiscoversEachDirectoryOnce ==
    dfn # "none" =>
        LET cands == CandidatesOf(dfn)
            existing == { i \in 1 .. Len(cands) : Resolve(hfs, cands[i]) # Missing }
        IN /\ \A k \in DOMAIN ddirs : \E i \in existing : ddirs[k] = RealDir(cands[i])
           /\ \A i \in existing : \E k \in DOMAIN ddirs : ddirs[k] = RealDir(cands[i])
           /\ \A k, l \in DOMAIN ddirs : k # l => ddirs[k] # ddirs[l]
           /\ \A k, l \in DOMAIN ddirs :
                 k < l => FirstCandidate(dfn, ddirs[k]) < FirstCandidate(dfn, ddirs[l])

\* Two Steam directories whose userdata entries are one directory gave one
\* userdata root.
LinkedUserdataOnce ==
    /\ dfn = "userdata_dirs"
    /\ hfs.base[".steam/steam"] = "S1"
    /\ hfs.base[".local/share/Steam"] = "S2"
    /\ hfs.userdata["S1"] = "U1"
    /\ hfs.userdata["S2"] = "U1"
    /\ ddirs = << <<"U1">> >>

\* The text the codec began with parses.
WellFormed == IsSome(VdfParse(korig))

\* C14: for every document produced by a set function with value v (from a
\* text that parses), the matching get function returns v, with and
\* without UserLocalConfigStore inside the outermost object.
SetThenGet ==
    (kop = "get" /\ kwritten /\ WellFormed) => kget = Some(kval)

\* C15: applying a set function a second time with the same key (app id)
\* and value returns exactly the text the first application returned.
SetTwiceIsSetOnce ==
    ksets >= 2 => kdoc = kprev

\* A well-formed settings file whose app had another value was set twice.
SetTwiceOnChangedText ==
    /\ kfam = "launch"
    /\ ksets = 2
    /\ WellFormed
    /\ parse_launch_options(korig, 123) = Some(sOld)
    /\ kval # sOld
    /\ kdoc # korig
    /\ kdoc = kprev

\* The entries of the outermost block of a text, in the order written:
\* each is its key and the tokens of its value.
RECURSIVE BlockEnd(_, _, _)
BlockEnd(tokens, i, depth) ==
    IF tokens[i].t = "}" THEN (IF depth = 1 THEN i ELSE BlockEnd(tokens, i + 1, depth - 1))
    ELSE IF tokens[i].t = "{" THEN BlockEnd(tokens, i + 1, depth + 1)
    ELSE BlockEnd(tokens, i + 1, depth)
RECURSIVE SplitEntries(_)
SplitEntries(body) ==
    IF body = <<>> THEN <<>>
    ELSE Only({ <<SubSeq(body, 1, n)>> \o SplitEntries(SubSeq(body, n + 1, Len(body))) :
                n \in {IF body[2].t = "{" THEN BlockEnd(body, 3, 1) ELSE 2} })
TopEntries(text) ==
    Only({ SplitEntries(SubSeq(tokens, 3, Len(tokens) - 1)) :
           tokens \in {SelectSeq(text, LAMBDA tok : tok.t # "//")} })
\* The entries update_or_insert is to leave: the first entry of the key
\* with the new value in its place, or the new entry after all others.
EntriesWith(entries, key, value) ==
    IF \E i \in DOMAIN entries : entries[i][1].raw = key
    THEN LET first == CHOOSE i \in DOMAIN entries :
                          /\ entries[i][1].raw = key
                          /\ \A j \in 1 .. (i - 1) : entries[j][1].raw # key
         IN [entries EXCEPT ![first] = Pair(key, Escape(value))]
    ELSE Append(entries, Pair(key, Escape(value)))

\* C16: update_or_insert on a text whose outermost value is a block
\* replaces the value of the key where it stands, or adds the key as the
\* last entry; every other entry is as it was and where it was.
OnlyTargetChanges ==
    (kfam = "manifest" /\ ksets = 1 /\ WellFormed /\ IsObj(VdfParse(korig).some.value)) =>
        /\ kdoc[1] = korig[1]
        /\ TopEntries(kdoc) = EntriesWith(TopEntries(korig), kkey, kval)

\* C17: on malformed, partial or empty text a set function does not raise
\* and returns a document from which the get function returns the value.
SetOnMalformedSynthesizes ==
    ~WellFormed =>
        /\ kop # "panic"
        /\ (kop = "get" /\ kwritten) => kget = Some(kval)

\* The part of C17 that holds: update_launch_options and update_compat_tool
\* start from an empty UserLocalConfigStore when the text does not parse.
SettingsFromScratch ==
    (~WellFormed /\ kfam \in {"launch", "compat"}) =>
        /\ kop # "panic"
        /\ (kop = "get" /\ kwritten) => kget = Some(kval)

\* The config roots in discovery order and those that hold a libraryfolders.vdf.
ConfigRoots == config_dirs(lfs.home)
RootsWithVdf == { i \in DOMAIN ConfigRoots : lfs.file[ConfigRoots[i][1]].state # "absent" }
FirstRootWithVdf ==
    ConfigRoots[CHOOSE i \in RootsWithVdf : \A j \in RootsWithVdf : i <= j][1]
Parsable(file) == file.state = "text" /\ IsSome(VdfParse(file.text))
\* The folder entries of a libraryfolders text in the order written, and
\* the `path` strings they give.
WrittenFolders(text) ==
    Only({ IF Len(tokens) < 2 \/ tokens[2].t # "{" THEN <<>>
           ELSE IF tokens[1].raw = kLibraryFolders THEN TopEntries(tokens)
           ELSE Only({ IF hits = <<>> \/ hits[1][2].t # "{" THEN <<>>
                       ELSE SplitEntries(SubSeq(hits[1], 3, Len(hits[1]) - 1)) :
                       hits \in {SelectSeq(TopEntries(tokens),
                                           LAMBDA e : e[1].raw = kLibraryFolders)} }) :
           tokens \in {SelectSeq(text, LAMBDA tok : tok.t # "//")} })
WrittenPath(entry) ==
    IF entry[2].t # "{" THEN <<>>
    ELSE Only({ IF fields = <<>> \/ fields[1][2].t # "str" THEN <<>>
                ELSE <<Unescape(fields[1][2].raw)>> :
                fields \in {SelectSeq(SplitEntries(SubSeq(entry, 3, Len(entry) - 1)),
                                      LAMBDA f : f[1].raw = kPath)} })
WrittenPaths(text) ==
    Only({ Concat([i \in 1 .. Len(folders) |-> WrittenPath(folders[i])]) :
           folders \in {WrittenFolders(text)} })
\* The written paths that are directories, in the order written.
ValidWritten ==
    SelectSeq(WrittenPaths(lfs.file[lfrom].text), LAMBDA path : KindOf(lfs, path) = "dir")

\* C18: get_steam_libraries reads libraryfolders.vdf of the first config
\* root, in discovery order, that has the file.  It returns
\* SteamConfigNotFound when no root has it, Parse when it cannot be read
\* as key-value text, SteamNotFound when none of the listed paths makes a
\* library, and otherwise a list that is not empty and holds only
\* libraries whose path was a directory when SteamLibrary::new saw it.
LibrariesOrError ==
    lpc = "done" =>
        IF RootsWithVdf = {} THEN lret = LibErr(SteamConfigNotFound)
        ELSE /\ lfrom = FirstRootWithVdf
             /\ IF ~Parsable(lfs.file[lfrom]) THEN lret = LibErr(ParseError)
                ELSE /\ lret.kind = "err" => lret = LibErr(SteamNotFound)
                     /\ lstable => (lret.kind = "err" <=> ValidWritten = <<>>)
                     /\ lret.kind = "ok" =>
                            /\ lret.libraries # <<>>
                            /\ Len(lret.libraries) = Len(lbuilt)
                            /\ \A i \in DOMAIN lbuilt :
                                   /\ lret.libraries[i] = lbuilt[i].path
                                   /\ lbuilt[i].was = "dir"
                                   /\ \E j \in DOMAIN WrittenPaths(lfs.file[lfrom].text) :
                                          WrittenPaths(lfs.file[lfrom].text)[j] = lbuilt[i].path

\* The first config root has no libraryfolders.vdf; that of the second
\* lists a file and a directory, and the directory alone is returned.
LibrariesFromSecondRoot ==
    /\ lpc = "done"
    /\ lret = LibOk(<<pathB>>)
    /\ lstable
    /\ Len(ConfigRoots) = 2
    /\ lfrom = ConfigRoots[2][1]
    /\ lfs.kind[pathA] = "file"
    /\ WrittenPaths(lfs.file[lfrom].text) = <<pathA, pathB>>

\* C19: the libraries get_steam_libraries returns are in the order in
\* which their entries are written in libraryfolders.vdf, whatever the
\* number of entries and whatever their keys.
LibrariesInWrittenOrder ==
    (lpc = "done" /\ lstable /\ lret.kind = "ok") => lret.libraries = ValidWritten

\* What holds in place of C19: the libraries are in the order of the keys
\* of their entries, compared as strings.
LibrariesInKeyOrder ==
    (lpc = "done" /\ lstable /\ lret.kind = "ok") =>
        lret.libraries =
            SelectSeq(parse_libraryfolders_vdf(lfs, lfrom).some, LAMBDA path : KindOf(lfs, path) = "dir")

\* The items of the result that come from library l.
ItemsOf(l) == { sresult[i] : i \in { j \in DOMAIN sresult : sresult[j].prefix_path.lib = l } }
\* The manifests of library l from which parse_appmanifest reads an
\* identifier and a name an Item may have.
ParseableManifests(l) ==
    { e \in sfs[l].steamapps :
        IsManifestName(e.fname) /\ e.parsed # NoManifest /\ e.parsed.appid # 0 /\ e.parsed.name # <<>> }
\* The compatdata entries of library l whose names are identifiers no
\* manifest of the library has given.
OrphanDirs(l) ==
    { c \in sfs[l].compat :
        ParseU32(c) > 0 /\ \A e \in ParseableManifests(l) : e.parsed.appid # ParseU32(c) }

\* C21: a finished scan holds, for each library scanned, an item with
\* has_manifest for every manifest that parses to a non-zero identifier and
\* a non-empty name, whether or not compatdata has a directory for it, and
\* an item "App <id>" without has_manifest and with last_played 0 for
\* every compatdata directory named by an identifier no manifest of the
\* library gave; no item has identifier 0 or an empty name.
ManifestsAndOrphansListed ==
    sphase = "done" =>
        /\ \A i \in DOMAIN sarg :
              /\ \A e \in ParseableManifests(sarg[i]) :
                    \E g \in ItemsOf(sarg[i]) :
                        /\ g.app_id = e.parsed.appid
                        /\ g.name = e.parsed.name
                        /\ g.has_manifest
                        /\ g.last_played = e.parsed.played
                        /\ g.prefix_path.dir = U32ToString(e.parsed.appid)
              /\ \A c \in OrphanDirs(sarg[i]) :
                    \E g \in ItemsOf(sarg[i]) :
                        /\ g.app_id = ParseU32(c)
                        /\ g.name = <<"A", "p", "p", " ">> \o U32ToString(ParseU32(c))
                        /\ ~g.has_manifest
                        /\ g.last_played = 0
        /\ \A i \in DOMAIN sresult : sresult[i].app_id # 0 /\ sresult[i].name # <<>>

\* Library 1 has a manifest without a compatdata directory beside
\* manifests that make no item, library 2 a compatdata directory "07"
\* without a manifest; the scan of both is done.
ManifestOnlyAndOrphanScanned ==
    /\ sphase = "done"
    /\ sarg = <<1, 2>>
    /\ Cardinality(sfs[1].steamapps) >= 3
    /\ <<"1">> \notin sfs[1].compat
    /\ <<"0">> \in sfs[1].compat
    /\ \E i \in DOMAIN sresult :
          sresult[i].app_id = 1 /\ sresult[i].has_manifest /\ sresult[i].prefix_path.lib = 1
    /\ sfs[2].steamapps = {}
    /\ \E i \in DOMAIN sresult :
          /\ sresult[i].name = <<"A", "p", "p", " ", "7">>
          /\ sresult[i].prefix_path = [lib |-> 2, dir |-> <<"0", "7">>]
          /\ ~sresult[i].has_manifest

\* C23: whenever no cached read, update or clear is under way, whatever
\* the threads have run and however their steps were interleaved, the
\* paths held in the per-file cache map are the paths in its queue.
MapMatchesQueue ==
    (\A t \in Threads : pc[t] = "idle") => Cached = InOrder

\* Thread t returns from its call in this step.
ReturnStep(t) == wpc[t] # "idle" /\ wpc'[t] = "idle" /\ lastRet'.thread = t

\* C26: a call of load_games_from_libraries returns the items of the
\* libraries passed to it.  The file system is taken at rest: a served
\* entry is what some set of libraries holds now, and nothing changed
\* under a recomputation.
ItemsOfArgument ==
    \A t \in Threads :
        (/\ winst = "items"
         /\ ReturnStep(t)
         /\ \/ lastRet'.kind = "fresh" /\ wclean[t]
            \/ /\ lastRet'.kind = "hit"
               /\ \E a \in Args : wcache.value = Expected("items", wfs, a))
        => lastRet'.value = Expected("items", wfs, warg[t])
ReturnsItemsOfArgument == [][ItemsOfArgument]_vars

\* C27: a call of get_steam_libraries that returns an error leaves the
\* library cache as it was, entry and timestamp, and leaves it without a
\* fresh entry, so that the next call recomputes.
FailureKeepsCache ==
    \A t \in Threads :
        (winst = "library" /\ ReturnStep(t) /\ lastRet'.kind = "err") =>
            /\ wcache' = wcache
            /\ wcache' = NoCache \/ ~Fresh(wcache', now')
FailureLeavesCache == [][FailureKeepsCache]_vars

\* get_steam_libraries has failed with an expired entry in the cache.
FailedOverExpiredEntry ==
    /\ winst = "library"
    /\ lastRet.kind = "err"
    /\ wcache # NoCache
    /\ wcache.value # <<>>
    /\ \A t \in Threads : wpc[t] = "idle"

\* C25: get_steam_libraries and load_games_from_libraries return Ok or
\* Err whatever the wall clock reads, also when it reads earlier than the
\* timestamp of the cached entry; no call ends in a panic, and the mutex
\* of the cache stays usable.
AlwaysReturnsAResult == lastRet.kind # "panic" /\ ~wpoison

\* C28: on every text that parses, with a block or a string under any key
\* of the path to the app, update_launch_options and update_compat_tool
\* return a document; they do not panic.
UpdatesReturnOnParsedText ==
    (WellFormed /\ kfam \in {"launch", "compat"}) => kop # "panic"

\* C29: a directory find_proton_runtime returns is named as one of the
\* candidates, or its name contains, case ignored, the trimmed label or a
\* version token that is not empty.
ReturnsOnlyMatches ==
    (rpc = "done" /\ rfound # NoPath) =>
        \/ \E c \in DOMAIN Candidates(rlabel) : rfound.name = Candidates(rlabel)[c]
        \/ Contains(ToLower(rfound.name), ToLower(Trim(rlabel)))
        \/ FuzzyBase(rlabel) # <<>> /\ Contains(ToLower(rfound.name), FuzzyBase(rlabel))

\* C30: once the loader has stored a list that is not empty, the window
\* comes to show that list, no longer loading and with no error, whenever
\* the loader finished and without the user doing anything.
LoadedListShown ==
    (gloader = "stored" /\ ginstalled # {}) ~>
        (~gloading /\ gfiltered = ginstalled /\ ~gerror)

\* What holds in place of C30: a list stored before a frame has seen the
\* clock past 3 seconds is shown.
LoadedInTimeShown ==
    (gloader = "stored" /\ ginstalled # {} /\ gloading) ~>
        (~gloading /\ gfiltered = ginstalled /\ ~gerror)

\* load_games_from_library run alone on `lib`, read_dir yielding the
\* entries in the orders ym and yc, with the per-file cache c: the games
\* and the cache afterwards.
RECURSIVE AloneManifests(_, _, _, _)
AloneManifests(games, c, lib, ym) ==
    IF ym = <<>> THEN [games |-> games, cache |-> c]
    ELSE AloneManifests(
            ManifestTurn(games, lib, Head(ym).fname, ParsedThrough(c, <<lib, Head(ym).fname>>, Head(ym))),
            CachedThrough(c, <<lib, Head(ym).fname>>, Head(ym)), lib, Tail(ym))
RECURSIVE AloneCompat(_, _, _)
AloneCompat(games, lib, yc) ==
    IF yc = <<>> THEN games ELSE AloneCompat(CompatTurn(games, lib, Head(yc)), lib, Tail(yc))
\* The libraries scanned one after another, from the k-th on.
RECURSIVE OneAfterAnother(_, _, _, _)
OneAfterAnother(arg, tasks, c, k) ==
    IF k > Len(arg) THEN <<>>
    ELSE \* the k-th library is scanned alone, then the rest
         Only({ AloneCompat(m.games, arg[k], tasks[k].yc) \o OneAfterAnother(arg, tasks, m.cache, k + 1) :
                m \in { AloneManifests(<<>>, c, arg[k], tasks[k].ym) } })

\* The tasks read each directory they could read to its end.
ReadToEnd(i) ==
    /\ { qtasks[i].ym[k] : k \in 1 .. Len(qtasks[i].ym) } = Entries(qfs[qarg[i]].steamapps)
    /\ { qtasks[i].yc[k] : k \in 1 .. Len(qtasks[i].yc) } = Entries(qfs[qarg[i]].compat)

MergedWithoutUnreadable ==
    /\ qphase = "merged"
    /\ qarg = <<2, 1>>
    /\ ~qfs[2].steamapps.ok /\ ~qfs[2].compat.ok
    /\ Len(qresult) = 3

\* whole-result cache, per-file map, per-file queue
Rank(m) ==
    IF m \in {"LIBRARY_CACHE", "MANIFEST_CACHE"} THEN 1
    ELSE IF m \in { MapOf(x) : x \in FilePairs } THEN 2 ELSE 3
\* The thread can take its next step.
CanStep(t) ==
    /\ xprog[t] # <<>>
    /\ Head(xprog[t]).do = "lock" => xowner[Head(xprog[t]).mutex] = "none"
    /\ Head(xprog[t]).do = "join" => xleft = 0
\* A task waits for a worker, and a worker is free.
CanTake == xjobs > 0 /\ \E w \in Workers : xop[w] = "none"

\* C24: in no state do the threads that run an operation all wait (for a
\* mutex another holds, or for tasks that cannot run); an operation locks
\* mutexes only in the order whole-result cache, per-file map, per-file
\* queue; and a thread that runs no operation holds no mutex.
NoThreadsWaitForever ==
    /\ (\E t \in LockThreads : xprog[t] # <<>>) => (CanTake \/ \E t \in LockThreads : CanStep(t))
    /\ \A t \in LockThreads :
          \A i, j \in 1 .. Len(xacq[t]) : i < j => Rank(xacq[t][i]) < Rank(xacq[t][j])
    /\ \A t \in LockThreads : xop[t] = "none" => HeldBy(t) = {} /\ xprog[t] = <<>>

\* A caller holds the item cache and waits in collect; a task holds the
\* per-file map and queue; the other caller waits for the per-file map.
TasksLockUnderCaller ==
    /\ xop["u1"] = "load_games_from_libraries" /\ xowner["MANIFEST_CACHE"] = "u1"
    /\ xprog["u1"] # <<>> /\ Head(xprog["u1"]).do = "join"
    /\ xowner["MANIFEST_FILE_CACHE"] = "w1" /\ xowner["MANIFEST_FILE_ORDER"] = "w1"
    /\ xop["u2"] = "update_cache"
    /\ xprog["u2"] # <<>> /\ Head(xprog["u2"]) = Lock("MANIFEST_FILE_CACHE")

====
